---- MODULE Spec2Model ----
(***************************************************************************)
(* Pattern/Intelligence engine of the 4rensic analyzer: PatternDetector,   *)
(* AnalysisDatabase (outcome ledger), IntelligenceManager and the          *)
(* OutcomeRecorder boundary.                                               *)
(*                                                                         *)
(* JavaScript values are tagged records; a string is a sequence of atoms   *)
(* (the alphabet of the model: "55D", "|", "directions", ...), so that     *)
(* concatenation, includes() and toLowerCase() are computed, not assumed.  *)
(* Numbers are exact rationals kept as integer numerators (sums, tenths).  *)
(***************************************************************************)
EXTENDS Integers, Sequences, FiniteSets, TLC

VARIABLES
  history,       \* AnalysisDatabase: the 'analyses' object store, in key order
  ledger,        \* AnalysisDatabase: the 'outcomes' object store, in key order
  nextKey,       \* AnalysisDatabase: the key generators of the two stores
  clock,         \* the instant new Date() returns next
  successRates,  \* PatternDetector.successRates, in insertion order
  patterns,      \* PatternDetector.patterns, in insertion order
  pending,       \* the asynchronous flows that wait at an await
  last           \* what the last completed operation returned

vars == <<history, ledger, nextKey, clock, successRates, patterns, pending, last>>

---------------------------------------------------------------------------
(* JavaScript values *)

Undef == [t |-> "undefined"]
Null == [t |-> "null"]
Threw == [t |-> "throw"]
Str(s) == [t |-> "string", s |-> s]
Arr(a) == [t |-> "array", a |-> a]
Obj(o) == [t |-> "object", o |-> o]

IsNullish(x) == x.t = "undefined" \/ x.t = "null"

\* ToBoolean: undefined, null and "" are falsy; arrays (also []) and objects are truthy
Truthy(x) ==
  CASE x.t = "undefined" -> FALSE
    [] x.t = "null" -> FALSE
    [] x.t = "string" -> x.s # <<>>
    [] OTHER -> TRUE

\* x.name for a non-nullish x: own property of an object, undefined otherwise
Prop(x, name) ==
  IF x.t = "object" /\ name \in DOMAIN x.o THEN x.o[name] ELSE Undef

\* `${x}` inside a template literal
ToStr(x) ==
  CASE x.t = "string" -> x.s
    [] x.t = "undefined" -> <<"undefined">>
    [] x.t = "null" -> <<"null">>
    [] OTHER -> <<"[object]">>

\* x || dflt
OrElse(x, dflt) == IF Truthy(x) THEN x ELSE dflt

---------------------------------------------------------------------------
(* Strings over atoms *)

LowerAtom(c) ==
  CASE c = "55D" -> "55d"
    [] c = "Directions" -> "directions"
    [] c = "Caution" -> "caution"
    [] c = "Reason to believe" -> "reason to believe"
    [] c = "HIGH" -> "high"
    [] c = "CRITICAL" -> "critical"
    [] c = "MEDIUM" -> "medium"
    [] c = "LOW" -> "low"
    [] c = "High" -> "high"
    [] c = "Critical" -> "critical"
    [] c = "Temporal" -> "temporal"
    [] OTHER -> c

UpperAtom(c) ==
  CASE c = "high" -> "HIGH"
    [] c = "High" -> "HIGH"
    [] c = "critical" -> "CRITICAL"
    [] c = "Critical" -> "CRITICAL"
    [] c = "medium" -> "MEDIUM"
    [] c = "low" -> "LOW"
    [] OTHER -> c

toLowerCase(s) == [i \in 1..Len(s) |-> LowerAtom(s[i])]

toUpperCase(s) == [i \in 1..Len(s) |-> UpperAtom(s[i])]

\* String.prototype.includes: sub occurs as a contiguous run of s
includes(s, sub) ==
  \E i \in 0..(Len(s) - Len(sub)) :
    \A j \in 1..Len(sub) : s[i + j] = sub[j]

SeqSum(s) ==
  LET RECURSIVE go(_)
      go(i) == IF i = 0 THEN 0 ELSE s[i] + go(i - 1)
  IN go(Len(s))

\* Array.prototype.flat of one level over a sequence of sequences
RECURSIVE Flatten(_)
Flatten(ss) == IF ss = <<>> THEN <<>> ELSE Head(ss) \o Flatten(Tail(ss))

\* Array.prototype.filter
FilterSeq(s, Keep(_)) == SelectSeq(s, Keep)

---------------------------------------------------------------------------
(* Numbers: a quotient n/d of non-negative integers, d > 0; a decimal with   *)
(* one fractional digit is kept as its count of tenths                       *)

\* Math.round(n/d) and (n/d).toFixed(0): nearest integer, halves upwards
RoundHalfUp(n, d) == (2 * n + d) \div (2 * d)

\* a maximum that always yields its second argument
MaxSecond(a, b) == b

Max(a, b) == IF a >= b THEN a ELSE b

Num(tenths) == [t |-> "number", tenths |-> tenths]

DigitChars == <<"0", "1", "2", "3", "4", "5", "6", "7", "8", "9">>

DigitValue(c) == (CHOOSE k \in 1..10 : DigitChars[k] = c) - 1

RECURSIVE Digits(_)
Digits(n) == IF n < 10 THEN <<DigitChars[n + 1]>>
             ELSE Append(Digits(n \div 10), DigitChars[(n % 10) + 1])

RECURSIVE DigitsValue(_)
DigitsValue(s) == IF s = <<>> THEN 0
                  ELSE 10 * DigitsValue(SubSeq(s, 1, Len(s) - 1)) + DigitValue(s[Len(s)])

\* a formatting that cuts the digits after the first decimal off
ToFixed1Down(n, d) ==
  LET tenths == (10 * n) \div d
  IN Str(Digits(tenths \div 10) \o <<".">> \o <<DigitChars[(tenths % 10) + 1]>>)

\* (n/d).toFixed(1): the decimal string, e.g. "87.5"
ToFixed1(n, d) ==
  LET tenths == RoundHalfUp(10 * n, d)
  IN Str(Digits(tenths \div 10) \o <<".">> \o <<DigitChars[(tenths % 10) + 1]>>)

\* parseFloat of a decimal string with one fractional digit, in tenths
parseFloat(x) ==
  LET dot == CHOOSE k \in 1..Len(x.s) : x.s[k] = "."
  IN 10 * DigitsValue(SubSeq(x.s, 1, dot - 1)) + DigitValue(x.s[dot + 1])

\* a conversion that orders decimal strings by their first character
ToNumberLeadingDigit(x) == IF x.t = "number" THEN x.tenths ELSE DigitValue(x.s[1])

\* ToNumber, in tenths, of a number or of a decimal string
ToNumber(x) == IF x.t = "number" THEN x.tenths ELSE parseFloat(x)

---------------------------------------------------------------------------
(* Array.prototype.sort *)

\* a comparator that looks at the frequency alone
ByFrequency(a, b) == b.frequency - a.frequency

\* a.priority - b.priority || b.frequency - a.frequency
ByPriorityThenFrequency(a, b) ==
  IF a.priority - b.priority # 0 THEN a.priority - b.priority
  ELSE b.frequency - a.frequency

\* The comparators the engine passes to sort(), as the number each returns
Compare(mode, a, b) ==
  CASE mode = "countDesc" -> b.count - a.count
    [] mode = "priorityThenFrequency" -> ByPriorityThenFrequency(a, b)
    [] mode = "entryCountDesc" -> b[2] - a[2]
    [] mode = "successRateDesc" -> ToNumber(b.successRate) - ToNumber(a.successRate)
    [] mode = "prioritize" ->
         IF a.hasHistoricalData /\ b.hasHistoricalData
         THEN parseFloat(b.successRate) - parseFloat(a.successRate)
         ELSE 0
    [] OTHER -> 0

\* Linear insertion sort (stable): what every conforming sort() returns for a
\* consistent comparator, and what engines that insertion-sort short arrays
\* return for any comparator
RECURSIVE InsertLinear(_, _, _)
InsertLinear(mode, sorted, x) ==
  IF sorted = <<>> THEN <<x>>
  ELSE IF Compare(mode, sorted[Len(sorted)], x) > 0
       THEN Append(InsertLinear(mode, SubSeq(sorted, 1, Len(sorted) - 1), x),
                   sorted[Len(sorted)])
       ELSE Append(sorted, x)

InsertionSort(mode, s) ==
  LET RECURSIVE go(_)
      go(i) == IF i = 0 THEN <<>> ELSE InsertLinear(mode, go(i - 1), s[i])
  IN go(Len(s))

\* V8 (TimSort) on an array shorter than its minimum run length: the initial
\* run is found and made ascending, the rest is inserted by binary search
RECURSIVE BinarySearchPos(_, _, _, _, _)
BinarySearchPos(mode, sorted, pivot, left, right) ==
  IF left >= right THEN left
  ELSE LET mid == left + ((right - left) \div 2)
       IN IF Compare(mode, pivot, sorted[mid]) < 0
          THEN BinarySearchPos(mode, sorted, pivot, left, mid)
          ELSE BinarySearchPos(mode, sorted, pivot, mid + 1, right)

InsertBinary(mode, sorted, pivot) ==
  LET pos == BinarySearchPos(mode, sorted, pivot, 1, Len(sorted) + 1)
  IN SubSeq(sorted, 1, pos - 1) \o <<pivot>> \o SubSeq(sorted, pos, Len(sorted))

RECURSIVE RunLength(_, _, _, _)
RunLength(mode, s, isDescending, idx) ==
  IF idx > Len(s) THEN idx - 1
  ELSE LET order == Compare(mode, s[idx], s[idx - 1])
       IN IF (isDescending /\ order >= 0) \/ (~isDescending /\ order < 0)
          THEN idx - 1
          ELSE RunLength(mode, s, isDescending, idx + 1)

Reverse(s) == [i \in 1..Len(s) |-> s[Len(s) + 1 - i]]

TimSortShort(mode, s) ==
  IF Len(s) < 2 THEN s
  ELSE LET isDescending == Compare(mode, s[2], s[1]) < 0
           run == RunLength(mode, s, isDescending, 3)
           prefix == IF isDescending THEN Reverse(SubSeq(s, 1, run))
                     ELSE SubSeq(s, 1, run)
           RECURSIVE go(_)
           go(i) == IF i = run THEN prefix
                    ELSE InsertBinary(mode, go(i - 1), s[i])
       IN go(Len(s))

\* a sort that leaves the array as it is
Unsorted(mode, s) == s

\* sort() with a consistent comparator: the stable order
StableSort(mode, s) == InsertionSort(mode, s)

\* sort() as one of the engines a browser ships
SortEngines == {"timsort", "insertion"}

ArraySort(engine, mode, s) ==
  IF engine = "timsort" THEN TimSortShort(mode, s) ELSE InsertionSort(mode, s)

---------------------------------------------------------------------------
(* PatternDetector: finding extraction (the inline expression every          *)
(* operation evaluates on an analysis record)                                *)

\* analysis.phases?.presetAnalysis?.flatMap(p => p.findings || [])
NestedFindings(analysis) ==
  IF IsNullish(analysis.phases) THEN Undef
  ELSE LET pa == Prop(analysis.phases, "presetAnalysis")
       IN IF IsNullish(pa) THEN Undef
          ELSE IF pa.t # "array" THEN Threw
          ELSE IF \E i \in 1..Len(pa.a) : IsNullish(pa.a[i]) THEN Threw
          ELSE Arr(Flatten([i \in 1..Len(pa.a) |->
                 LET f == OrElse(Prop(pa.a[i], "findings"), Arr(<<>>))
                 IN IF f.t = "array" THEN f.a ELSE <<f>>]))

\* analysis.findings || <nested> || []
InlineFindings(analysis) ==
  IF Truthy(analysis.findings) THEN analysis.findings
  ELSE LET n == NestedFindings(analysis)
       IN IF n.t = "throw" THEN Threw ELSE OrElse(n, Arr(<<>>))

\* findings.forEach / filter / length followed by a property read of each
\* element raises a TypeError on a non-array and on a null/undefined element
FindingsThrow(analysis) ==
  LET f == InlineFindings(analysis)
  IN f.t # "array" \/ \E i \in 1..Len(f.a) : IsNullish(f.a[i])

Findings(analysis) == InlineFindings(analysis).a

Ok(v) == [t |-> "ok", v |-> v]

---------------------------------------------------------------------------
(* PatternDetector.findRecurringDefects *)

DefectKey(defect) ==
  ToStr(Prop(defect, "type")) \o <<"|">>
    \o ToStr(OrElse(Prop(defect, "statute"), Str(<<"unknown">>)))

\* every (analysis, defect) pair in the order the two forEach loops visit them
Occurrences(analyses) ==
  Flatten([i \in 1..Len(analyses) |->
    [j \in 1..Len(Findings(analyses[i])) |->
      [analysis |-> analyses[i], defect |-> Findings(analyses[i])[j]]]])

\* one pass of the inner forEach body over the insertion-ordered defectCounts
CountDefect(defectCounts, occ) ==
  LET key == DefectKey(occ.defect)
      at == {k \in 1..Len(defectCounts) : defectCounts[k].key = key}
      fresh == [key |-> key,
                type |-> Prop(occ.defect, "type"),
                statute |-> Prop(occ.defect, "statute"),
                severity |-> Prop(occ.defect, "severity"),
                count |-> 0,
                firstSeen |-> occ.analysis.timestamp,
                lastSeen |-> occ.analysis.timestamp,
                descriptions |-> <<>>,
                analysisIds |-> <<>>]
      counts == IF at = {} THEN Append(defectCounts, fresh) ELSE defectCounts
      k == CHOOSE k \in 1..Len(counts) : counts[k].key = key
  IN [counts EXCEPT ![k] =
        [@ EXCEPT !.count = @ + 1,
                  !.lastSeen = occ.analysis.timestamp,
                  !.descriptions = Append(@, Prop(occ.defect, "description")),
                  !.analysisIds = Append(@, occ.analysis.id)]]

DefectCounts(analyses) ==
  LET occs == Occurrences(analyses)
      RECURSIVE go(_)
      go(i) == IF i = 0 THEN <<>> ELSE CountDefect(go(i - 1), occs[i])
  IN go(Len(occs))

RecurrenceThreshold == 3

IsRecurring(d) == d.count >= RecurrenceThreshold

findRecurringDefects(analyses) ==
  IF \E i \in 1..Len(analyses) : FindingsThrow(analyses[i]) THEN Threw
  ELSE Ok(StableSort("countDesc", FilterSeq(DefectCounts(analyses), IsRecurring)))

---------------------------------------------------------------------------
(* PatternDetector.analyzeTrends *)

TrendMinimum == 3

TrendWindow == 5

\* analyses.slice(-5)
Recent(analyses) ==
  SubSeq(analyses, Max(1, Len(analyses) - TrendWindow + 1), Len(analyses))

IsHighSeverity(d) ==
  Prop(d, "severity") = Str(<<"HIGH">>) \/ Prop(d, "severity") = Str(<<"CRITICAL">>)

SeverityCounts(analyses) ==
  [i \in 1..Len(Recent(analyses)) |->
     Len(FilterSeq(Findings(Recent(analyses)[i]), IsHighSeverity))]

\* a WORSENING test that carries the zero-guard of the IMPROVING branch
IsWorseningGuarded(sumFirst, nFirst, sumSecond, nSecond) ==
  5 * sumSecond * nFirst > 6 * sumFirst * nSecond /\ sumFirst > 0

\* a WORSENING test that admits a change of exactly +20%
IsWorseningOrEqual(sumFirst, nFirst, sumSecond, nSecond) ==
  5 * sumSecond * nFirst >= 6 * sumFirst * nSecond

\* secondAvg > firstAvg * 1.2, with firstAvg = sumFirst/nFirst and
\* secondAvg = sumSecond/nSecond
IsWorsening(sumFirst, nFirst, sumSecond, nSecond) ==
  5 * sumSecond * nFirst > 6 * sumFirst * nSecond

\* secondAvg < firstAvg * 0.8 && firstAvg > 0
IsImproving(sumFirst, nFirst, sumSecond, nSecond) ==
  5 * sumSecond * nFirst < 4 * sumFirst * nSecond /\ sumFirst > 0

Classify(sumFirst, nFirst, sumSecond, nSecond) ==
  IF IsWorsening(sumFirst, nFirst, sumSecond, nSecond) THEN
    [direction |-> "WORSENING",
     \* Math.round((secondAvg / firstAvg - 1) * 100); x / 0 is Infinity
     percent |-> IF sumFirst = 0 THEN [infinite |-> TRUE, n |-> 0]
                 ELSE [infinite |-> FALSE,
                       n |-> RoundHalfUp(100 * (sumSecond * nFirst - sumFirst * nSecond),
                                         sumFirst * nSecond)],
     recommendation |-> "Systematic review of documentation processes recommended",
     severity |-> "HIGH",
     firstAvg |-> ToFixed1(sumFirst, nFirst),
     secondAvg |-> ToFixed1(sumSecond, nSecond)]
  ELSE IF IsImproving(sumFirst, nFirst, sumSecond, nSecond) THEN
    [direction |-> "IMPROVING",
     percent |-> [infinite |-> FALSE,
                  n |-> RoundHalfUp(100 * (sumFirst * nSecond - sumSecond * nFirst),
                                    sumFirst * nSecond)],
     recommendation |-> "Current processes appear effective - maintain practices",
     severity |-> "LOW",
     firstAvg |-> ToFixed1(sumFirst, nFirst),
     secondAvg |-> ToFixed1(sumSecond, nSecond)]
  ELSE
    [direction |-> "STABLE",
     percent |-> [infinite |-> FALSE, n |-> 0],
     recommendation |-> "Continue monitoring",
     severity |-> "MEDIUM",
     firstAvg |-> ToFixed1(sumFirst, nFirst),
     secondAvg |-> ToFixed1(sumSecond, nSecond)]

\* a guard that lets a history of two analyses through
HasFewerThanTwo(analyses) == Len(analyses) < TrendMinimum - 1

\* analyses.length < 3
HasTooFewAnalyses(analyses) == Len(analyses) < TrendMinimum

analyzeTrends(analyses) ==
  IF HasTooFewAnalyses(analyses) THEN
    Ok([status |-> "insufficient_data", analysisCount |-> Len(analyses)])
  ELSE IF \E i \in 1..Len(Recent(analyses)) : FindingsThrow(Recent(analyses)[i])
  THEN Threw
  ELSE LET severityCounts == SeverityCounts(analyses)
           half == Len(severityCounts) \div 2
           firstHalf == SubSeq(severityCounts, 1, half)
           secondHalf == SubSeq(severityCounts, half + 1, Len(severityCounts))
       IN Ok(Classify(SeqSum(firstHalf), Len(firstHalf),
                      SeqSum(secondHalf), Len(secondHalf)))

---------------------------------------------------------------------------
(* PatternDetector.generateRecommendations *)

\* defect.type && type.toLowerCase().includes(a) && type.toLowerCase().includes(b)
TypeHasBoth(type, a, b) ==
  /\ Truthy(type)
  /\ includes(toLowerCase(type.s), <<a>>)
  /\ includes(toLowerCase(type.s), <<b>>)

Matches55D(defect) == TypeHasBoth(defect.type, "55d", "directions")

Matches49(defect) == TypeHasBoth(defect.type, "49", "reason to believe")

Matches464(defect) == TypeHasBoth(defect.type, "464", "caution")

GenericMinimum == 5

\* a generic rule that looks at the count alone
GenericAppliesByCount(recommendations, defect) == defect.count >= GenericMinimum

\* !recommendations.find(r => r.issue === defect.type) && defect.count >= 5
GenericApplies(recommendations, defect) ==
  /\ ~ \E i \in 1..Len(recommendations) : recommendations[i].issue = defect.type
  /\ defect.count >= GenericMinimum

Specialized(defect, template, severity, statute) ==
  [issue |-> defect.type, frequency |-> defect.count, severity |-> Str(<<severity>>),
   priority |-> 1, template |-> template, statute |-> Str(<<statute>>)]

\* the forEach body for one recurring defect
Recommend(recommendations, defect) ==
  LET r1 == IF Matches55D(defect)
            THEN Append(recommendations,
                   Specialized(defect, "CREATE MANDATORY CHECKLIST", "HIGH",
                               "Road Safety Act 1986 s.55D"))
            ELSE recommendations
      r2 == IF Matches49(defect)
            THEN Append(r1, Specialized(defect, "TRAINING REQUIRED", "HIGH",
                                        "Road Safety Act 1986 s.49"))
            ELSE r1
      r3 == IF Matches464(defect)
            THEN Append(r2, Specialized(defect, "CRITICAL PROCESS FAILURE", "CRITICAL",
                                        "Crimes Act 1958 s.464"))
            ELSE r2
  IN IF GenericApplies(r3, defect)
     THEN Append(r3, [issue |-> defect.type, frequency |-> defect.count,
                      severity |-> defect.severity, priority |-> 2,
                      template |-> "Pattern detected",
                      statute |-> OrElse(defect.statute, Str(<<"Unknown">>))])
     ELSE r3

generateRecommendations(analyses) ==
  LET recurring == findRecurringDefects(analyses)
      RECURSIVE go(_)
      go(i) == IF i = 0 THEN <<>> ELSE Recommend(go(i - 1), recurring.v[i])
  IN IF recurring.t = "throw" THEN Threw
     ELSE Ok(StableSort("priorityThenFrequency", go(Len(recurring.v))))

---------------------------------------------------------------------------
(* PatternDetector.identifyNovelIssues *)

\* a set of types that takes in the last analysis as well
AllIssueTypes(analyses) ==
  UNION {{Prop(Findings(analyses[i])[j], "type") :
            j \in 1..Len(Findings(analyses[i]))} :
         i \in 1..Len(analyses)}

\* the Set of f.type over every analysis but the last
PreviousIssueTypes(analyses) ==
  UNION {{Prop(Findings(analyses[i])[j], "type") :
            j \in 1..Len(Findings(analyses[i]))} :
         i \in 1..(Len(analyses) - 1)}

identifyNovelIssues(analyses) ==
  IF Len(analyses) = 0 THEN Ok(<<>>)
  ELSE IF \E i \in 1..Len(analyses) : FindingsThrow(analyses[i]) THEN Threw
  ELSE LET latestFindings == Findings(analyses[Len(analyses)])
           previousIssueTypes == PreviousIssueTypes(analyses)
           IsNovel(finding) == Prop(finding, "type") \notin previousIssueTypes
           novelIssues == FilterSeq(latestFindings, IsNovel)
       IN Ok([i \in 1..Len(novelIssues) |->
                [type |-> Prop(novelIssues[i], "type"),
                 severity |-> Prop(novelIssues[i], "severity"),
                 description |-> Prop(novelIssues[i], "description"),
                 statute |-> Prop(novelIssues[i], "statute"),
                 isNew |-> TRUE]])

---------------------------------------------------------------------------
(* PatternDetector.calculateCompliance *)

\* property keys that are array indices ("49") enumerate before the others
IndexAtoms == {"49", "464"}

IsIndexKey(key) == Len(key) = 1 /\ key[1] \in IndexAtoms

\* issueTypeCounts[f.type] = (issueTypeCounts[f.type] || 0) + 1 over every
\* finding: the object holds one property per type, created when the type is
\* first met, whose value is the number of findings of the type
IssueTypeCounts(analyses) ==
  LET occs == Occurrences(analyses)
      key(i) == ToStr(Prop(occs[i].defect, "type"))
      created == {i \in 1..Len(occs) : \A j \in 1..(i - 1) : key(j) # key(i)}
      nth(k) == CHOOSE i \in created : Cardinality({j \in created : j <= i}) = k
  IN [k \in 1..Cardinality(created) |->
        <<key(nth(k)), Cardinality({j \in 1..Len(occs) : key(j) = key(nth(k))})>>]

EntryIsIndex(e) == IsIndexKey(e[1])

EntryIsName(e) == ~IsIndexKey(e[1])

\* Object.entries: index keys in ascending numeric order, then insertion order
ObjectEntries(counts) ==
  LET idx == FilterSeq(counts, EntryIsIndex)
      Is49(e) == e[1] = <<"49">>
      Is464(e) == e[1] = <<"464">>
  IN FilterSeq(idx, Is49) \o FilterSeq(idx, Is464) \o FilterSeq(counts, EntryIsName)

calculateCompliance(analyses) ==
  IF Len(analyses) = 0 THEN
    Ok([averageIssuesPerDoc |-> 0, complianceRate |-> 1000,
        mostCommonIssue |-> <<"None">>, totalAnalyses |-> 0])
  ELSE IF \E i \in 1..Len(analyses) : FindingsThrow(analyses[i]) THEN Threw
  ELSE LET occs == Occurrences(analyses)
           IsCritical(o) == Prop(o.defect, "severity") = Str(<<"CRITICAL">>)
           IsHigh(o) == Prop(o.defect, "severity") = Str(<<"HIGH">>)
           totalIssues == Len(occs)
           sorted == StableSort("entryCountDesc", ObjectEntries(IssueTypeCounts(analyses)))
           \* (totalIssues / analyses.length).toFixed(1)
           avgIssues == ToFixed1(totalIssues, Len(analyses))
           \* Math.max(0, 100 - avgIssues * 5), in tenths
           complianceScore == Max(0, 1000 - ToNumber(avgIssues) * 5)
       IN Ok([totalAnalyses |-> Len(analyses),
              totalIssues |-> totalIssues,
              averageIssuesPerDoc |-> parseFloat(avgIssues),
              complianceRate |-> complianceScore,
              criticalIssues |-> Len(FilterSeq(occs, IsCritical)),
              highIssues |-> Len(FilterSeq(occs, IsHigh)),
              mostCommonIssue |-> IF sorted # <<>> THEN sorted[1][1] ELSE <<"None">>,
              mostCommonIssueCount |-> IF sorted # <<>> THEN sorted[1][2] ELSE 0])

---------------------------------------------------------------------------
(* PatternDetector.analyzePatterns *)

analyzePatterns(allAnalyses) ==
  LET recurring == findRecurringDefects(allAnalyses)
      trends == analyzeTrends(allAnalyses)
      recommendations == generateRecommendations(allAnalyses)
      novelIssues == identifyNovelIssues(allAnalyses)
      complianceMetrics == calculateCompliance(allAnalyses)
  IN IF \/ recurring.t = "throw" \/ trends.t = "throw" \/ recommendations.t = "throw"
        \/ novelIssues.t = "throw" \/ complianceMetrics.t = "throw"
     THEN Threw
     ELSE Ok([recurring |-> recurring.v,
              trends |-> trends.v,
              recommendations |-> recommendations.v,
              novelIssues |-> novelIssues.v,
              complianceMetrics |-> complianceMetrics.v])

---------------------------------------------------------------------------
(* PatternDetector: outcome learning *)

\* a success test that also counts a settlement
SuccessfulOutcomesAndSettled ==
  {"evidence excluded", "application successful", "case dismissed", "settled"}

SuccessfulOutcomes == {"evidence excluded", "application successful", "case dismissed"}

\* a body that sets up the entry of a new type and counts nothing
RegisterDefect(rates, defectType, outcome) ==
  IF \E k \in 1..Len(rates) : rates[k].type = defectType
  THEN rates
  ELSE Append(rates, [type |-> defectType, totalRaised |-> 0, successful |-> 0,
                      unsuccessful |-> 0, outcomes |-> <<>>])

\* the forEach body of learnFromOutcome for one raised defect type
LearnDefect(rates, defectType, outcome) ==
  LET fresh == [type |-> defectType, totalRaised |-> 0, successful |-> 0,
                unsuccessful |-> 0, outcomes |-> <<>>]
      map == IF \E k \in 1..Len(rates) : rates[k].type = defectType
             THEN rates ELSE Append(rates, fresh)
      k == CHOOSE k \in 1..Len(map) : map[k].type = defectType
      won == outcome.outcome \in SuccessfulOutcomes
  IN [map EXCEPT ![k] =
        [@ EXCEPT !.totalRaised = @ + 1,
                  !.successful = IF won THEN @ + 1 ELSE @,
                  !.unsuccessful = IF won THEN @ ELSE @ + 1,
                  !.outcomes = Append(@, [date |-> outcome.date,
                                          outcome |-> outcome.outcome,
                                          courtResponse |-> outcome.courtResponse,
                                          effectiveArguments |-> outcome.effectiveArguments])]]

\* the success-rate map after learnFromOutcome(analysisId, outcome)
learnFromOutcome(rates, outcome) ==
  IF Truthy(outcome.defectsRaised) /\ outcome.defectsRaised.t = "array"
  THEN LET raised == outcome.defectsRaised.a
           RECURSIVE go(_)
           go(i) == IF i = 0 THEN rates ELSE LearnDefect(go(i - 1), raised[i], outcome)
       IN go(Len(raised))
  ELSE rates

getSuccessRates(rates) ==
  StableSort("successRateDesc",
    [k \in 1..Len(rates) |->
       [type |-> rates[k].type, totalRaised |-> rates[k].totalRaised,
        successful |-> rates[k].successful, unsuccessful |-> rates[k].unsuccessful,
        outcomes |-> rates[k].outcomes,
        successRate |-> IF rates[k].totalRaised > 0
                        THEN ToFixed1(100 * rates[k].successful, rates[k].totalRaised)
                        ELSE Num(0)]])

ConfidenceThreshold == 3

SuccessCutoff == 60

\* this.successRates.get(defect.type)
SuccessInfo(rates, defect) ==
  LET type == Prop(defect, "type")
  IN IF \E k \in 1..Len(rates) : rates[k].type = type
     THEN Obj(rates[CHOOSE k \in 1..Len(rates) : rates[k].type = type])
     ELSE Undef

\* x > n for a property value x: undefined converts to NaN, which is greater than nothing
GreaterThan(x, n) ==
  CASE x.t = "number" -> x.tenths > 10 * n
    [] x.t = "string" -> parseFloat(x) > 10 * n
    [] OTHER -> FALSE

\* a confidence test that needs more than the threshold
HasConfidenceAbove(successInfo) ==
  Truthy(successInfo) /\ successInfo.o.totalRaised > ConfidenceThreshold

\* successInfo && successInfo.totalRaised >= 3
HasConfidence(successInfo) ==
  Truthy(successInfo) /\ successInfo.o.totalRaised >= ConfidenceThreshold

\* the map() callback of prioritizeDefects; the properties the no-data entry
\* lacks read as undefined
PrioritizeOne(rates, defect) ==
  LET successInfo == SuccessInfo(rates, defect)
  IN IF HasConfidence(successInfo)
     THEN [defect |-> defect,
           hasHistoricalData |-> TRUE,
           successRate |-> ToFixed1(100 * successInfo.o.successful,
                                    successInfo.o.totalRaised),
           timesRaised |-> successInfo.o.totalRaised,
           recommendation |->
             IF GreaterThan(Prop(successInfo, "successRate"), SuccessCutoff)
             THEN "High success rate in court - strong defect to raise"
             ELSE "Lower success rate - ensure strong evidence before raising"]
     ELSE [defect |-> defect,
           hasHistoricalData |-> FALSE,
           successRate |-> Undef,
           timesRaised |-> Undef,
           recommendation |-> "No historical outcome data for this defect type"]

prioritizeDefects(engine, rates, currentDefects) ==
  ArraySort(engine, "prioritize",
    [i \in 1..Len(currentDefects) |-> PrioritizeOne(rates, currentDefects[i])])

---------------------------------------------------------------------------
(* AnalysisDatabase *)

\* the record saveOutcome adds to the 'outcomes' store
OutcomeRecord(key, now, analysisId, outcome) ==
  [id |-> key,
   analysisId |-> analysisId,
   outcome |-> outcome.outcome,
   defectsRaised |-> OrElse(outcome.defectsRaised, Arr(<<>>)),
   courtResponse |-> outcome.courtResponse,
   effectiveArguments |-> outcome.effectiveArguments,
   date |-> outcome.date,
   timestamp |-> now]

\* the record saveAnalysis adds to the 'analyses' store
AnalysisRecord(key, now, analysis) ==
  [id |-> key, timestamp |-> now,
   findings |-> analysis.findings, phases |-> analysis.phases]

\* updateSuccessRates: learnFromOutcome for every stored outcome, in key order
Replay(rates, outcomes) ==
  LET RECURSIVE go(_)
      go(i) == IF i = 0 THEN rates ELSE learnFromOutcome(go(i - 1), outcomes[i])
  IN go(Len(outcomes))

---------------------------------------------------------------------------
(* IntelligenceManager.extractDefects *)

ExtractedDefect(finding) ==
  Obj([type |-> Prop(finding, "type"),
       severity |-> OrElse(Prop(finding, "severity"), Str(<<"LOW">>)),
       description |-> Prop(finding, "description"),
       statute |-> OrElse(Prop(finding, "statute"), Str(<<"Unknown">>))])

\* the findings the first loop visits: every truthy preset.findings, flattened
PresetFindings(analysisResults) ==
  LET pa == IF IsNullish(analysisResults.phases) THEN Undef
            ELSE Prop(analysisResults.phases, "presetAnalysis")
  IN IF ~Truthy(pa) THEN <<>>
     ELSE Flatten([i \in 1..Len(pa.a) |->
            IF Truthy(Prop(pa.a[i], "findings"))
            THEN Prop(pa.a[i], "findings").a ELSE <<>>])

\* a forEach on a non-array, or a property read of null, raises a TypeError
ExtractThrows(analysisResults) ==
  LET pa == IF IsNullish(analysisResults.phases) THEN Undef
            ELSE Prop(analysisResults.phases, "presetAnalysis")
      BadList(x) == x.t # "array" \/ \E j \in 1..Len(x.a) : IsNullish(x.a[j])
  IN \/ /\ Truthy(pa)
        /\ \/ pa.t # "array"
           \/ \E i \in 1..Len(pa.a) :
                \/ IsNullish(pa.a[i])
                \/ /\ Truthy(Prop(pa.a[i], "findings"))
                   /\ BadList(Prop(pa.a[i], "findings"))
     \/ Truthy(analysisResults.findings) /\ BadList(analysisResults.findings)

\* the second loop: a direct finding is added unless its type is already there
AddUnlessTypePresent(defects, finding) ==
  IF \E k \in 1..Len(defects) : Prop(defects[k], "type") = Prop(finding, "type")
  THEN defects ELSE Append(defects, ExtractedDefect(finding))

extractDefects(analysisResults) ==
  IF ExtractThrows(analysisResults) THEN Threw
  ELSE LET nested == PresetFindings(analysisResults)
           fromPresets == [i \in 1..Len(nested) |-> ExtractedDefect(nested[i])]
           direct == IF Truthy(analysisResults.findings)
                     THEN analysisResults.findings.a ELSE <<>>
           RECURSIVE go(_)
           go(i) == IF i = 0 THEN fromPresets
                    ELSE AddUnlessTypePresent(go(i - 1), direct[i])
       IN Arr(go(Len(direct)))

---------------------------------------------------------------------------
(* PatternDetector: patterns learned from the findings of one document       *)
(* (a pattern's description, a text rendered from its category and           *)
(* frequency, is not carried)                                                *)

PatternThreshold == 3

TemporalMinimum == 5

CriticalClusterMinimum == 3

\* assessSignificance(frequency)
assessSignificance(frequency) ==
  IF frequency >= 10 THEN "CRITICAL"
  ELSE IF frequency >= 7 THEN "HIGH"
  ELSE IF frequency >= 5 THEN "MEDIUM"
  ELSE "LOW"

\* finding.type || 'Unknown'
TypeOrUnknown(finding) == OrElse(Prop(finding, "type"), Str(<<"Unknown">>))

\* the groups of findingsByType, in the order their types first appear
FindingsByType(findings) ==
  LET key(i) == TypeOrUnknown(findings[i])
      created == {i \in 1..Len(findings) : \A j \in 1..(i - 1) : key(j) # key(i)}
      nth(k) == CHOOSE i \in created : Cardinality({j \in created : j <= i}) = k
  IN [k \in 1..Cardinality(created) |->
        LET InGroup(f) == TypeOrUnknown(f) = key(nth(k))
        IN [type |-> key(nth(k)), groupFindings |-> FilterSeq(findings, InGroup)]]

\* a group is a pattern once it has threshold findings
IsPatternGroup(groupFindings) == Len(groupFindings) >= PatternThreshold

RecurringIssue(group) ==
  [type |-> "Recurring Issue",
   category |-> group.type,
   frequency |-> Len(group.groupFindings),
   significance |-> assessSignificance(Len(group.groupFindings)),
   examples |-> Arr(SubSeq(group.groupFindings, 1,
                           IF Len(group.groupFindings) < 3
                           THEN Len(group.groupFindings) ELSE 3))]

\* f.type && f.type.toLowerCase().includes('temporal')
IsTemporalFinding(f) ==
  /\ Truthy(Prop(f, "type"))
  /\ includes(toLowerCase(Prop(f, "type").s), <<"temporal">>)

detectTemporalPatterns(findings) ==
  LET temporalFindings == FilterSeq(findings, IsTemporalFinding)
  IN IF Len(temporalFindings) > TemporalMinimum
     THEN << [type |-> "Temporal Pattern",
              category |-> Str(<<"High Temporal Reference Density">>),
              frequency |-> Len(temporalFindings),
              significance |-> "MEDIUM",
              examples |-> Undef] >>
     ELSE <<>>

\* finding.severity ? finding.severity.toUpperCase() : 'LOW', counted as CRITICAL
IsCriticalFinding(f) ==
  /\ Truthy(Prop(f, "severity"))
  /\ toUpperCase(Prop(f, "severity").s) = <<"CRITICAL">>

detectSeverityPatterns(findings) ==
  LET critical == Len(FilterSeq(findings, IsCriticalFinding))
  IN IF critical > CriticalClusterMinimum
     THEN << [type |-> "Severity Pattern",
              category |-> Str(<<"Multiple Critical Issues">>),
              frequency |-> critical,
              significance |-> "CRITICAL",
              examples |-> Undef] >>
     ELSE <<>>

detectPatterns(findings) ==
  LET groups == FindingsByType(findings)
      PatternGroup(g) == IsPatternGroup(g.groupFindings)
      recurring == FilterSeq(groups, PatternGroup)
  IN [k \in 1..Len(recurring) |-> RecurringIssue(recurring[k])]
       \o detectTemporalPatterns(findings)
       \o detectSeverityPatterns(findings)

\* `${pattern.type}:${pattern.category}`
PatternKey(pattern) == <<pattern.type, ":">> \o ToStr(pattern.category)

\* one pass of the loop of learn: count a known pattern again, or store a new
\* one as seen now
StorePattern(learned, pattern, now) ==
  IF \E k \in 1..Len(learned) : learned[k].key = PatternKey(pattern)
  THEN [k \in 1..Len(learned) |->
          IF learned[k].key = PatternKey(pattern)
          THEN [learned[k] EXCEPT
                  !.value.count = @ + 1,
                  !.value.totalFrequency = @ + pattern.frequency]
          ELSE learned[k]]
  ELSE Append(learned,
              [key |-> PatternKey(pattern),
               value |-> [type |-> pattern.type,
                          category |-> pattern.category,
                          frequency |-> pattern.frequency,
                          significance |-> pattern.significance,
                          examples |-> pattern.examples,
                          count |-> 1,
                          totalFrequency |-> pattern.frequency,
                          firstSeen |-> now]])

\* learn(analysisResults), for findings that are a list of objects
learn(learned, analysisResults, now) ==
  IF ~Truthy(analysisResults.findings) THEN learned
  ELSE LET detected == detectPatterns(analysisResults.findings.a)
           RECURSIVE go(_)
           go(i) == IF i = 0 THEN learned
                    ELSE StorePattern(go(i - 1), detected[i], now)
       IN go(Len(detected))

\* reset(): both maps cleared
ResetKeepsPatterns(learned) == learned

ResetPatterns(learned) == <<>>

\* getLearnedPatterns()
getLearnedPatterns(learned) ==
  StableSort("countDesc", [k \in 1..Len(learned) |-> learned[k].value])

---------------------------------------------------------------------------
(* PatternDetector: the analysis operations on a supplied array *)

\* the supplied array after an operation that took its window with splice
SuppliedAfterSplice(analyses) ==
  SubSeq(analyses, 1,
         Len(analyses) - (IF Len(analyses) < TrendWindow THEN Len(analyses) ELSE TrendWindow))

\* the supplied array after an operation: the operations read it with forEach,
\* slice and index access, which leave it as it is, and sort only arrays of
\* their own
SuppliedAfter(analyses) == analyses

Invoke(op, analyses) ==
  CASE op = "findRecurringDefects" -> findRecurringDefects(analyses)
    [] op = "analyzeTrends" -> analyzeTrends(analyses)
    [] op = "identifyNovelIssues" -> identifyNovelIssues(analyses)
    [] op = "generateRecommendations" -> generateRecommendations(analyses)
    [] op = "calculateCompliance" -> calculateCompliance(analyses)
    [] op = "analyzePatterns" -> analyzePatterns(analyses)

---------------------------------------------------------------------------
(* OutcomeRecorder.saveOutcome: the form's required fields *)

NoAlert == "none"

\* a validation that lets a submission without defects through
ValidationAlertWithoutDefects(form) ==
  IF ~Truthy(form.outcomeType) THEN "Please select an outcome type"
  ELSE IF ~Truthy(form.outcomeDate) THEN "Please enter the date of the outcome"
  ELSE NoAlert

\* the alert the first failing check raises before saveOutcome returns
ValidationAlert(form) ==
  IF ~Truthy(form.outcomeType) THEN "Please select an outcome type"
  ELSE IF ~Truthy(form.outcomeDate) THEN "Please enter the date of the outcome"
  ELSE IF Len(form.selectedDefects) = 0
       THEN "Please select at least one defect that was raised in court"
  ELSE NoAlert

\* outcomeData (the date, an ISO rendering of the field, is carried as it is)
OutcomeData(form) ==
  [outcome |-> form.outcomeType.s[1],
   defectsRaised |-> Arr(form.selectedDefects),
   courtResponse |-> form.courtResponse,
   effectiveArguments |-> Arr(<<>>),
   date |-> form.outcomeDate]

\* a flow that learns whether or not the outcome was saved
LearnedRegardless(saved, rates, outcome) == learnFromOutcome(rates, outcome)

\* await saveOutcome; await learnFromOutcome: a rejected save skips the rest
\* of the try block
LearnedAfterSave(saved, rates, outcome) ==
  IF saved THEN learnFromOutcome(rates, outcome) ELSE rates

---------------------------------------------------------------------------
(* Inputs *)

MaxHistory == 4

MaxTrendHistory == 6

MaxShapeHistory == 3

MaxOutcomes == 4

MaxRaised == 8

MaxLearned == 8

MaxVocabularyOutcomes == 2

MaxChecklistHistory == 4

MaxComplianceHistory == 3

MaxNovelHistory == 3

MaxResetAnalyses == 1

MaxResetOutcomes == 1

MaxResetClock == 3

MaxOrderingHistory == 3

MaxArrangedHistory == 3

MaxBoundaryOutcomes == 2

MaxFailureOutcomes == 2

MaxFailureAnalyses == 1

MaxFailureRaised == 4

MaxOverlapOutcomes == 2

MaxPureHistory == 1

MaxPureOutcomes == 1

MaxPureClock == 2

Finding(type, severity, statute) ==
  Obj([type |-> Str(type), severity |-> Str(<<severity>>), statute |-> Str(statute),
       description |-> Str(<<"description">>)])

\* a finding with no statute property
FindingNoStatute(type, severity) ==
  Obj([type |-> Str(type), severity |-> Str(<<severity>>),
       description |-> Str(<<"description">>)])

\* a finding with no severity property
FindingNoSeverity(type, statute) ==
  Obj([type |-> Str(type), statute |-> Str(statute),
       description |-> Str(<<"description">>)])

Preset(findings) == Obj([presetId |-> Str(<<"1">>), findings |-> Arr(findings)])

Direct(findings) == [findings |-> Arr(findings), phases |-> Undef]

Nested(presets) ==
  [findings |-> Undef, phases |-> Obj([presetAnalysis |-> Arr(presets)])]

Both(findings, presets) ==
  [findings |-> Arr(findings), phases |-> Obj([presetAnalysis |-> Arr(presets)])]

TypeX == <<"Missing timestamp">>
TypeY == <<"Unsigned statement">>
TypeZ == <<"Late disclosure">>
TypePipe == <<"a", "|", "b">>
TypeA == <<"a">>
TypeXLower == <<"missing timestamp">>
TypeTemporal == <<"Temporal", " inconsistency">>
Type55D == <<"Missing s.", "55D", " ", "directions", " language">>
ActA == <<"Evidence Act 2008 s.138">>
ActB == <<"Crimes Act 1958 s.464A">>
ActPipe == <<"b", "|", "unknown">>
ActUnknown == <<"unknown">>
Act55D == <<"Road Safety Act 1986 s.55D">>
Type55DMixed == <<"s.", "55d", " ", "Directions", " not given">>
Type55DAnd49 == <<"55D", " ", "directions", " and s.", "49", " ", "reason to believe">>

RecurringPool ==
  { Direct(<<Finding(TypeX, "HIGH", ActA)>>),
    Direct(<<Finding(TypeX, "LOW", ActB)>>),
    Direct(<<Finding(TypeX, "HIGH", ActA), Finding(TypeX, "HIGH", ActA),
             Finding(TypeX, "MEDIUM", ActB), Finding(TypeX, "MEDIUM", ActB)>>),
    Direct(<<FindingNoStatute(TypeY, "LOW")>>),
    Direct(<<Finding(TypeY, "LOW", ActUnknown)>>),
    Direct(<<FindingNoStatute(TypePipe, "MEDIUM")>>),
    Direct(<<Finding(TypeA, "MEDIUM", ActPipe)>>),
    Nested(<<Preset(<<Finding(Type55D, "HIGH", Act55D)>>)>>) }

Repeat(x, n) == [i \in 1..n |-> x]

\* records whose findings match the s.55D rule: the README's example finding,
\* the same type under another statute, a mixed-case type, a type that also
\* matches the s.49 rule, and a type no specialized rule matches
ChecklistPool ==
  { Nested(<<Preset(<<Finding(Type55D, "HIGH", Act55D)>>)>>),
    Direct(<<Finding(Type55D, "HIGH", Act55D), Finding(Type55D, "HIGH", Act55D)>>),
    Direct(<<Finding(Type55D, "MEDIUM", ActA)>>),
    Direct(<<Finding(Type55DAnd49, "HIGH", Act55D), Finding(Type55DMixed, "LOW", Act55D)>>),
    Direct(<<Finding(TypeX, "LOW", ActA), Finding(TypeX, "LOW", ActA)>>) }

\* records that bring a whole group each: a type only the generic rule takes,
\* five times, under two statutes; a s.55D type three times; a type that
\* matches the s.55D and the s.49 rule three times
OrderingPool ==
  { Direct(Repeat(Finding(TypeX, "LOW", ActA), 5)),
    Direct(Repeat(Finding(TypeY, "LOW", ActB), 5)),
    Direct(Repeat(Finding(Type55D, "HIGH", Act55D), 3)),
    Direct(Repeat(Finding(Type55DAnd49, "HIGH", Act55D), 3)) }

TrendPool ==
  { Direct(<<Finding(TypeX, "MEDIUM", ActA), Finding(TypeY, "LOW", ActB)>>),
    Direct(<<Finding(TypeX, "HIGH", ActA), Finding(TypeY, "CRITICAL", ActB),
             Finding(TypeZ, "LOW", ActA)>>),
    Direct(Repeat(Finding(TypeX, "HIGH", ActA), 3)
           \o Repeat(Finding(TypeY, "CRITICAL", ActB), 2)),
    Nested(<<Preset(Repeat(Finding(TypeX, "CRITICAL", ActA), 4)),
             Preset(Repeat(Finding(TypeY, "HIGH", ActB), 2))>>),
    Direct(<<Finding(TypeX, "high", ActA), Finding(TypeX, "Critical", ActA),
             Finding(TypeX, "High", ActA), Finding(TypeY, "critical", ActB),
             Finding(TypeY, "high", ActB), FindingNoSeverity(TypeZ, ActA),
             Finding(TypeZ, "SEVERE", ActA)>>) }

ShapePool ==
  { Direct(<<Finding(TypeX, "HIGH", ActA)>>),
    Both(<<Finding(TypeX, "HIGH", ActA)>>, <<Preset(<<Finding(TypeY, "LOW", ActB)>>)>>),
    Both(<<>>, <<Preset(<<Finding(TypeY, "HIGH", ActB), Finding(TypeY, "HIGH", ActB)>>)>>),
    [findings |-> Undef, phases |-> Undef],
    Nested(<<Obj([presetId |-> Str(<<"1">>)]), Preset(<<Finding(TypeX, "LOW", ActA)>>)>>),
    [findings |-> Undef, phases |-> Obj([summary |-> Str(<<"none">>)])],
    Direct(<<Finding(TypeX, "HIGH", ActA), Null>>),
    [findings |-> Str(<<"not a list">>), phases |-> Undef],
    [findings |-> Undef, phases |-> Obj([presetAnalysis |-> Obj([findings |-> Arr(<<>>)])])],
    Nested(<<Null>>),
    Nested(<<Obj([findings |-> Obj([type |-> Str(TypeX)])])>>),
    Direct(<<Finding(TypeX, "high", ActA), Finding(TypeY, "Critical", ActB),
             FindingNoSeverity(TypeZ, ActA), Finding(TypeZ, "SEVERE", ActA)>>) }

\* records with no, few and very many findings, so that the average issues
\* per document goes from 0 past 20
CompliancePool ==
  { Direct(<<>>),
    Direct(<<Finding(TypeX, "HIGH", ActA)>>),
    Nested(<<Preset(<<Finding(TypeY, "CRITICAL", ActB), Finding(TypeX, "LOW", ActA)>>)>>),
    Direct(Repeat(Finding(TypeX, "MEDIUM", ActA), 20)),
    Direct(Repeat(Finding(TypeZ, "LOW", ActB), 21)) }

\* records that repeat a type inside one record and across phases, share
\* types with each other, or hold nothing
NovelPool ==
  { Direct(<<Finding(TypeX, "HIGH", ActA)>>),
    Direct(<<Finding(TypeY, "LOW", ActB), Finding(TypeX, "HIGH", ActA),
             Finding(TypeY, "MEDIUM", ActA)>>),
    Nested(<<Preset(<<Finding(TypeZ, "HIGH", ActA)>>),
             Preset(<<Finding(TypeZ, "LOW", ActB), Finding(TypeXLower, "LOW", ActA)>>)>>),
    Direct(<<>>) }

Outcome(outcome, raised) ==
  [outcome |-> outcome, defectsRaised |-> Arr(raised),
   courtResponse |-> Str(<<"response">>), effectiveArguments |-> Arr(<<>>), date |-> 1]

OutcomePool ==
  { Outcome("evidence excluded", <<Str(TypeX), Str(TypeY)>>),
    Outcome("case proceeded", <<Str(TypeX)>>),
    Outcome("case dismissed", <<Str(TypeY)>>),
    Outcome("settled", <<Str(TypeX), Str(TypeY)>>) }

\* the outcome types the recorder offers
Vocabulary ==
  {"evidence excluded", "application successful", "case dismissed", "evidence admitted",
   "application denied", "case proceeded", "settled", "withdrawn", "other"}

\* every outcome type, and lists that raise one type, or one type twice
VocabularyPool ==
  {Outcome(v, <<Str(TypeX), Str(TypeY)>>) : v \in Vocabulary}
    \cup { Outcome("evidence excluded", <<Str(TypeX)>>),
           Outcome("other", <<Str(TypeY)>>),
           Outcome("settled", <<Str(TypeX), Str(TypeX)>>) }

\* outcomes that raise one type again and again, with and without success
LearnPool ==
  { Outcome("evidence excluded", <<Str(TypeX)>>),
    Outcome("case proceeded", <<Str(TypeX)>>),
    Outcome("application successful", <<Str(TypeY), Str(TypeX)>>) }

\* documents to learn from: one type three times, one temporal type six times
\* and critical each time, and findings kept under presets only
PatternPool ==
  { Direct(Repeat(Finding(TypeX, "HIGH", ActA), 3)),
    Direct(Repeat(Finding(TypeTemporal, "CRITICAL", ActA), 6)),
    Nested(<<Preset(Repeat(Finding(TypeX, "HIGH", ActA), 3))>>) }

\* what the database and the detector hold before a clear: a document whose
\* type recurs, outcomes that raise it three times at once or once, and the
\* defects of a later document
ResetHistoryPool == { Direct(Repeat(Finding(TypeX, "HIGH", ActA), 3)) }

ResetOutcomePool ==
  { Outcome("evidence excluded", <<Str(TypeX), Str(TypeX), Str(TypeX)>>),
    Outcome("case proceeded", <<Str(TypeY)>>) }

ResetDefectLists ==
  { <<Finding(TypeY, "HIGH", ActA), Finding(TypeX, "HIGH", ActA)>> }

\* what the dialog can hold when Save is clicked: no outcome type (the
\* placeholder option, or no such element), no date, no defect ticked, and
\* complete forms
FormPool ==
  [outcomeType : {Undef, Str(<<>>), Str(<<"evidence excluded">>), Str(<<"settled">>)},
   outcomeDate : {Undef, Str(<<>>), Str(<<"2025-01-15">>)},
   selectedDefects : {<<>>, <<Str(TypeX)>>, <<Str(TypeX), Str(TypeY)>>},
   courtResponse : {Str(<<>>)}]

\* a form with every required field, for one defect
CompleteForms ==
  {form \in FormPool :
     /\ form.outcomeType = Str(<<"settled">>)
     /\ form.outcomeDate = Str(<<"2025-01-15">>)
     /\ form.selectedDefects = <<Str(TypeX)>>}

DefectListPool ==
  { <<Finding(TypeX, "HIGH", ActA), Finding(TypeZ, "LOW", ActB),
      Finding(TypeY, "HIGH", ActA)>>,
    <<Finding(TypeY, "HIGH", ActA), Finding(TypeX, "HIGH", ActA)>>,
    <<Finding(TypeZ, "LOW", ActB), Finding(TypeX, "HIGH", ActA),
      FindingNoStatute(TypeXLower, "LOW"), Finding(TypeY, "HIGH", ActA)>> }

---------------------------------------------------------------------------
(* State machine *)

Init ==
  /\ history = <<>>
  /\ ledger = <<>>
  /\ nextKey = [analyses |-> 1, outcomes |-> 1]
  /\ clock = 1
  /\ successRates = <<>>
  /\ patterns = <<>>
  /\ pending = [recording |-> <<>>, replay |-> <<>>]
  /\ last = [op |-> "init"]

\* AnalysisDatabase.saveAnalysis(analysis)
SaveAnalysis(analysis, bound) ==
  /\ nextKey.analyses <= bound
  /\ history' = Append(history, AnalysisRecord(nextKey.analyses, clock, analysis))
  /\ nextKey' = [nextKey EXCEPT !.analyses = @ + 1]
  /\ clock' = clock + 1
  /\ last' = [op |-> "saveAnalysis", result |-> nextKey.analyses]
  /\ UNCHANGED <<ledger, successRates, patterns, pending>>

\* the custom insight queries: one engine operation on getAllAnalyses()
QueryRecurring ==
  /\ last' = [op |-> "findRecurringDefects", result |-> findRecurringDefects(history)]
  /\ UNCHANGED <<history, ledger, nextKey, clock, successRates, patterns, pending>>

\* the orders in which a caller can hand n stored records to the detector
Arrangements(n) ==
  {order \in [1..n -> 1..n] : \A i, j \in 1..n : order[i] = order[j] => i = j}

\* findRecurringDefects(analyses) on the stored records in an order the caller
\* chooses
QueryRecurringArranged(order) ==
  LET analyses == [i \in 1..Len(history) |-> history[order[i]]]
  IN /\ last' = [op |-> "findRecurringDefects", input |-> analyses,
                 result |-> findRecurringDefects(analyses)]
     /\ UNCHANGED <<history, ledger, nextKey, clock, successRates, patterns, pending>>

QueryTrends ==
  /\ last' = [op |-> "analyzeTrends", result |-> analyzeTrends(history)]
  /\ UNCHANGED <<history, ledger, nextKey, clock, successRates, patterns, pending>>

QueryRecommendations ==
  /\ last' = [op |-> "generateRecommendations",
              result |-> generateRecommendations(history)]
  /\ UNCHANGED <<history, ledger, nextKey, clock, successRates, patterns, pending>>

QueryNovel ==
  /\ last' = [op |-> "identifyNovelIssues", result |-> identifyNovelIssues(history)]
  /\ UNCHANGED <<history, ledger, nextKey, clock, successRates, patterns, pending>>

QueryCompliance ==
  /\ last' = [op |-> "calculateCompliance", result |-> calculateCompliance(history)]
  /\ UNCHANGED <<history, ledger, nextKey, clock, successRates, patterns, pending>>

\* IntelligenceManager.recordOutcome / OutcomeRecorder.saveOutcome:
\* database.saveOutcome, then patternDetector.learnFromOutcome
RecordOutcome(analysisId, outcome, bound) ==
  /\ nextKey.outcomes <= bound
  /\ ledger' = Append(ledger, OutcomeRecord(nextKey.outcomes, clock, analysisId, outcome))
  /\ nextKey' = [nextKey EXCEPT !.outcomes = @ + 1]
  /\ clock' = clock + 1
  /\ successRates' = learnFromOutcome(successRates, outcome)
  /\ last' = [op |-> "recordOutcome"]
  /\ UNCHANGED <<history, patterns, pending>>

TotalRaised(rates) == SeqSum([k \in 1..Len(rates) |-> rates[k].totalRaised])

\* AnalysisDatabase.updateSuccessRates(patternDetector)
UpdateSuccessRates ==
  /\ TotalRaised(Replay(successRates, ledger)) <= MaxRaised
  /\ successRates' = Replay(successRates, ledger)
  /\ last' = [op |-> "updateSuccessRates",
              result |-> getSuccessRates(Replay(successRates, ledger))]
  /\ UNCHANGED <<history, ledger, nextKey, clock, patterns, pending>>

\* IntelligenceManager.clearAllData: database.clearAll and patternDetector.reset
\* when the user confirms, nothing otherwise
ClearAllData(confirmed) ==
  /\ IF confirmed
     THEN /\ history' = <<>>
          /\ ledger' = <<>>
          /\ successRates' = <<>>
          /\ patterns' = ResetPatterns(patterns)
     ELSE UNCHANGED <<history, ledger, successRates, patterns>>
  /\ last' = [op |-> "clearAllData", confirmed |-> confirmed]
  /\ UNCHANGED <<nextKey, clock, pending>>

\* PatternDetector.getSuccessRates()
GetSuccessRates ==
  /\ last' = [op |-> "getSuccessRates", result |-> getSuccessRates(successRates)]
  /\ UNCHANGED <<history, ledger, nextKey, clock, successRates, patterns, pending>>

\* PatternDetector.prioritizeDefects(currentDefects)
PrioritizeDefects(engine, currentDefects) ==
  /\ last' = [op |-> "prioritizeDefects", input |-> currentDefects,
              result |-> prioritizeDefects(engine, successRates, currentDefects)]
  /\ UNCHANGED <<history, ledger, nextKey, clock, successRates, patterns, pending>>

\* PatternDetector.learn(analysisResults)
Learn(analysisResults, bound) ==
  /\ clock <= bound
  /\ patterns' = learn(patterns, analysisResults, clock)
  /\ clock' = clock + 1
  /\ last' = [op |-> "learn"]
  /\ UNCHANGED <<history, ledger, nextKey, successRates, pending>>

\* PatternDetector.getLearnedPatterns()
GetLearnedPatterns ==
  /\ last' = [op |-> "getLearnedPatterns", result |-> getLearnedPatterns(patterns)]
  /\ UNCHANGED <<history, ledger, nextKey, clock, successRates, patterns, pending>>

\* OutcomeRecorder.saveOutcome() on the form, with a database.saveOutcome that
\* resolves or rejects
RecorderSaveOutcome(form, saved, bound) ==
  LET alert == ValidationAlert(form)
      stored == alert = NoAlert /\ saved
  IN /\ stored => nextKey.outcomes <= bound
     /\ ledger' = IF stored
                  THEN Append(ledger, OutcomeRecord(nextKey.outcomes, clock, 1,
                                                    OutcomeData(form)))
                  ELSE ledger
     /\ nextKey' = IF stored THEN [nextKey EXCEPT !.outcomes = @ + 1] ELSE nextKey
     /\ clock' = IF stored THEN clock + 1 ELSE clock
     /\ successRates' = IF alert = NoAlert
                        THEN LearnedAfterSave(saved, successRates, OutcomeData(form))
                        ELSE successRates
     /\ last' = [op |-> "OutcomeRecorder.saveOutcome",
                 form |-> form,
                 alert |-> IF alert # NoAlert THEN alert
                           ELSE IF saved THEN NoAlert
                           ELSE "Failed to save outcome. Please try again.",
                 calls |-> IF alert # NoAlert THEN <<>>
                           ELSE IF saved THEN <<"saveOutcome", "learnFromOutcome">>
                           ELSE <<"saveOutcome">>,
                 failed |-> IF alert = NoAlert /\ ~saved THEN "saveOutcome" ELSE "none",
                 threw |-> FALSE]
     /\ UNCHANGED <<history, patterns, pending>>

\* IntelligenceManager.recordOutcome(analysisId, outcomeData), with a
\* database.saveOutcome that resolves or rejects; the catch block rethrows
RecordOutcomeWith(analysisId, outcome, saved, bound) ==
  /\ saved => nextKey.outcomes <= bound
  /\ ledger' = IF saved
               THEN Append(ledger, OutcomeRecord(nextKey.outcomes, clock, analysisId, outcome))
               ELSE ledger
  /\ nextKey' = IF saved THEN [nextKey EXCEPT !.outcomes = @ + 1] ELSE nextKey
  /\ clock' = IF saved THEN clock + 1 ELSE clock
  /\ successRates' = LearnedAfterSave(saved, successRates, outcome)
  /\ last' = [op |-> "recordOutcome",
              calls |-> IF saved THEN <<"saveOutcome", "learnFromOutcome">>
                        ELSE <<"saveOutcome">>,
              failed |-> IF saved THEN "none" ELSE "saveOutcome",
              threw |-> ~saved]
  /\ UNCHANGED <<history, patterns, pending>>

\* AnalysisDatabase.updateSuccessRates(patternDetector), with a getAllOutcomes
\* that resolves or rejects; the catch block rethrows
UpdateSuccessRatesWith(read, bound) ==
  /\ read => TotalRaised(Replay(successRates, ledger)) <= bound
  /\ successRates' = IF read THEN Replay(successRates, ledger) ELSE successRates
  /\ last' = [op |-> "updateSuccessRates",
              calls |-> <<"getAllOutcomes">>,
              failed |-> IF read THEN "none" ELSE "getAllOutcomes",
              threw |-> ~read]
  /\ UNCHANGED <<history, ledger, nextKey, clock, patterns, pending>>

\* IntelligenceManager.loadSuccessRates(), the last step of init(): the catch
\* block logs what updateSuccessRates threw and returns
LoadSuccessRates(read, bound) ==
  /\ read => TotalRaised(Replay(successRates, ledger)) <= bound
  /\ successRates' = IF read THEN Replay(successRates, ledger) ELSE successRates
  /\ last' = [op |-> "loadSuccessRates",
              calls |-> <<"getAllOutcomes">>,
              failed |-> IF read THEN "none" ELSE "getAllOutcomes",
              threw |-> FALSE]
  /\ UNCHANGED <<history, ledger, nextKey, clock, patterns, pending>>

\* IntelligenceManager.processAnalysis(analysisResults) without containers, on
\* an initialized manager: saveAnalysis, getAllAnalyses, analyzePatterns; the
\* catch block rethrows
ProcessAnalysis(analysisResults, failing, bound) ==
  LET saved == failing # "saveAnalysis"
      allAnalyses == Append(history, AnalysisRecord(nextKey.analyses, clock, analysisResults))
  IN \E insights \in {IF failing = "none" THEN analyzePatterns(allAnalyses) ELSE Threw} :
     /\ saved => nextKey.analyses <= bound
     /\ history' = IF saved THEN allAnalyses ELSE history
     /\ nextKey' = IF saved THEN [nextKey EXCEPT !.analyses = @ + 1] ELSE nextKey
     /\ clock' = IF saved THEN clock + 1 ELSE clock
     /\ last' = [op |-> "processAnalysis",
                 calls |-> IF saved THEN <<"saveAnalysis", "getAllAnalyses">>
                           ELSE <<"saveAnalysis">>,
                 failed |-> failing,
                 threw |-> failing # "none" \/ insights.t = "throw",
                 result |-> insights]
     /\ UNCHANGED <<ledger, successRates, patterns, pending>>

\* a recording up to its first await: database.saveOutcome is called, the
\* record is added, and the flow waits for the promise
BeginRecording(analysisId, outcome, bound) ==
  /\ nextKey.outcomes <= bound
  /\ ledger' = Append(ledger, OutcomeRecord(nextKey.outcomes, clock, analysisId, outcome))
  /\ nextKey' = [nextKey EXCEPT !.outcomes = @ + 1]
  /\ clock' = clock + 1
  /\ pending' = [pending EXCEPT !.recording = Append(@, outcome)]
  /\ last' = [op |-> "saveOutcome"]
  /\ UNCHANGED <<history, successRates, patterns>>

\* the recording resumes: learnFromOutcome
FinishRecording ==
  /\ pending.recording # <<>>
  /\ successRates' = learnFromOutcome(successRates, Head(pending.recording))
  /\ pending' = [pending EXCEPT !.recording = Tail(@)]
  /\ last' = [op |-> "recordOutcome"]
  /\ UNCHANGED <<history, ledger, nextKey, clock, patterns>>

\* updateSuccessRates up to its first await, as the load of a detector that
\* holds nothing yet: getAllOutcomes is called and reads the store as it is
BeginReplay ==
  /\ pending.replay = <<>>
  /\ successRates = <<>>
  /\ pending' = [pending EXCEPT !.replay = <<ledger>>]
  /\ last' = [op |-> "getAllOutcomes"]
  /\ UNCHANGED <<history, ledger, nextKey, clock, successRates, patterns>>

\* the replay resumes: learnFromOutcome for the next record it read, up to the
\* await on it, or the return once no record is left
ReplayStep ==
  /\ pending.replay # <<>>
  /\ LET outcomes == pending.replay[1]
     IN IF outcomes = <<>>
        THEN /\ pending' = [pending EXCEPT !.replay = <<>>]
             /\ last' = [op |-> "updateSuccessRates",
                         result |-> getSuccessRates(successRates)]
             /\ UNCHANGED successRates
        ELSE /\ successRates' = learnFromOutcome(successRates, Head(outcomes))
             /\ pending' = [pending EXCEPT !.replay = <<Tail(outcomes)>>]
             /\ last' = [op |-> "learnFromOutcome"]
  /\ UNCHANGED <<history, ledger, nextKey, clock, patterns>>

\* one analysis operation on the array getAllAnalyses returns
Analyze(op) ==
  /\ last' = [op |-> op,
              supplied |-> SuppliedAfter(history),
              result |-> Invoke(op, history)]
  /\ UNCHANGED <<history, ledger, nextKey, clock, successRates, patterns, pending>>

NextRecurring ==
  \/ \E a \in RecurringPool : SaveAnalysis(a, MaxHistory)
  \/ QueryRecurring
  \/ QueryRecommendations

NextTrends ==
  \/ \E a \in TrendPool : SaveAnalysis(a, MaxTrendHistory)
  \/ QueryTrends

NextShapes ==
  \/ \E a \in ShapePool : SaveAnalysis(a, MaxShapeHistory)
  \/ QueryRecurring
  \/ QueryTrends
  \/ QueryRecommendations
  \/ QueryNovel
  \/ QueryCompliance

NextOutcomes ==
  \/ \E o \in OutcomePool : RecordOutcome(1, o, MaxOutcomes)
  \/ UpdateSuccessRates
  \/ \E c \in BOOLEAN : ClearAllData(c)
  \/ GetSuccessRates
  \/ \E e \in SortEngines, ds \in DefectListPool : PrioritizeDefects(e, ds)

\* a detector that learns only through recordOutcome, so that the ledger
\* lists exactly the outcomes learned since the detector was last empty
NextLearn ==
  \/ \E o \in LearnPool : RecordOutcome(1, o, MaxLearned)
  \/ \E c \in BOOLEAN : ClearAllData(c)
  \/ GetSuccessRates

NextVocabulary ==
  \/ \E o \in VocabularyPool : RecordOutcome(1, o, MaxVocabularyOutcomes)
  \/ \E c \in BOOLEAN : ClearAllData(c)
  \/ GetSuccessRates

NextChecklist ==
  \/ \E a \in ChecklistPool : SaveAnalysis(a, MaxChecklistHistory)
  \/ QueryRecurring
  \/ QueryRecommendations

NextCompliance ==
  \/ \E a \in CompliancePool : SaveAnalysis(a, MaxComplianceHistory)
  \/ QueryCompliance

NextNovel ==
  \/ \E a \in NovelPool : SaveAnalysis(a, MaxNovelHistory)
  \/ QueryNovel

\* a detector that learns from documents and from outcomes, is read, and is
\* cleared together with the database
NextReset ==
  \/ \E a \in ResetHistoryPool : SaveAnalysis(a, MaxResetAnalyses)
  \/ \E a \in PatternPool : Learn(a, MaxResetClock)
  \/ \E o \in ResetOutcomePool : RecordOutcome(1, o, MaxResetOutcomes)
  \/ \E c \in BOOLEAN : ClearAllData(c)
  \/ GetSuccessRates
  \/ GetLearnedPatterns
  \/ \E e \in SortEngines, ds \in ResetDefectLists : PrioritizeDefects(e, ds)
  \/ QueryRecurring

NextOrdering ==
  \/ \E a \in OrderingPool : SaveAnalysis(a, MaxOrderingHistory)
  \/ QueryRecommendations

NextArranged ==
  \/ \E a \in ChecklistPool : SaveAnalysis(a, MaxArrangedHistory)
  \/ \E order \in Arrangements(Len(history)) : QueryRecurringArranged(order)

\* the recorder's dialog
NextBoundary ==
  \/ \E form \in FormPool, saved \in BOOLEAN :
       RecorderSaveOutcome(form, saved, MaxBoundaryOutcomes)
  \/ GetSuccessRates

\* the manager and the recorder over a database whose calls can fail
NextFailure ==
  \/ \E form \in CompleteForms, saved \in BOOLEAN :
       RecorderSaveOutcome(form, saved, MaxFailureOutcomes)
  \/ \E o \in ResetOutcomePool, saved \in BOOLEAN :
       RecordOutcomeWith(1, o, saved, MaxFailureOutcomes)
  \/ \E read \in BOOLEAN : UpdateSuccessRatesWith(read, MaxFailureRaised)
  \/ \E read \in BOOLEAN : LoadSuccessRates(read, MaxFailureRaised)
  \/ \E a \in ResetHistoryPool, failing \in {"none", "saveAnalysis", "getAllAnalyses"} :
       ProcessAnalysis(a, failing, MaxFailureAnalyses)

\* recordings and the load of the success rates, one await at a time
NextOverlap ==
  \/ \E o \in ResetOutcomePool : BeginRecording(1, o, MaxOverlapOutcomes)
  \/ FinishRecording
  \/ BeginReplay
  \/ ReplayStep

\* the analysis operations amid saved analyses, learned outcomes and learned
\* patterns
NextPure ==
  \/ \E a \in ResetHistoryPool : SaveAnalysis(a, MaxPureHistory)
  \/ \E o \in ResetOutcomePool : RecordOutcome(1, o, MaxPureOutcomes)
  \/ \E a \in PatternPool : Learn(a, MaxPureClock)
  \/ \E op \in {"findRecurringDefects", "analyzeTrends", "identifyNovelIssues",
                 "generateRecommendations", "calculateCompliance", "analyzePatterns"} :
       Analyze(op)

SpecRecurring == Init /\ [][NextRecurring]_vars

SpecTrends == Init /\ [][NextTrends]_vars

SpecShapes == Init /\ [][NextShapes]_vars

SpecOutcomes == Init /\ [][NextOutcomes]_vars

SpecLearn == Init /\ [][NextLearn]_vars

SpecVocabulary == Init /\ [][NextVocabulary]_vars

SpecChecklist == Init /\ [][NextChecklist]_vars

SpecCompliance == Init /\ [][NextCompliance]_vars

SpecNovel == Init /\ [][NextNovel]_vars

SpecReset == Init /\ [][NextReset]_vars

SpecOrdering == Init /\ [][NextOrdering]_vars

SpecArranged == Init /\ [][NextArranged]_vars

SpecBoundary == Init /\ [][NextBoundary]_vars

SpecFailure == Init /\ [][NextFailure]_vars

SpecOverlap == Init /\ [][NextOverlap]_vars

SpecPure == Init /\ [][NextPure]_vars

---------------------------------------------------------------------------
(* Reference notions the properties are stated in *)

Returned(op) == last.op = op /\ last.result.t = "ok"

StatuteOrUnknown(statute) == OrElse(statute, Str(<<"unknown">>))

\* the (type, statute-or-'unknown') pair of a defect occurrence
PairOf(defect) == <<Prop(defect, "type"), StatuteOrUnknown(Prop(defect, "statute"))>>

\* how many occurrences of the pair the history holds
PairCount(pair) ==
  Cardinality({i \in 1..Len(Occurrences(history)) :
                 PairOf(Occurrences(history)[i].defect) = pair})

GroupPair(group) == <<group.type, StatuteOrUnknown(group.statute)>>

\* HIGH/CRITICAL findings of one record
HighCount(analysis) ==
  Cardinality({j \in 1..Len(Findings(analysis)) :
                 Prop(Findings(analysis)[j], "severity")
                   \in {Str(<<"HIGH">>), Str(<<"CRITICAL">>)}})

\* the per-record counts of the trend window: the last min(5, n) records
WindowSize == IF Len(history) < 5 THEN Len(history) ELSE 5

WindowCounts ==
  [i \in 1..WindowSize |-> HighCount(history[Len(history) - WindowSize + i])]

FirstN == WindowSize \div 2

SecondN == WindowSize - FirstN

FirstSum == SeqSum(SubSeq(WindowCounts, 1, FirstN))

SecondSum == SeqSum(SubSeq(WindowCounts, FirstN + 1, WindowSize))

---------------------------------------------------------------------------
(* C1 *)

\* C1: findRecurringDefects returns a group for a (type, statute-or-'unknown')
\* pair iff the pair occurs at least 3 times in the history, and the group's
\* count is the number of occurrences of the pair
C1_GroupIffThreeOccurrences ==
  Returned("findRecurringDefects") =>
    /\ \A i \in 1..Len(Occurrences(history)) :
         LET pair == PairOf(Occurrences(history)[i].defect)
         IN (\E k \in 1..Len(last.result.v) : GroupPair(last.result.v[k]) = pair)
              <=> PairCount(pair) >= 3
    /\ \A k \in 1..Len(last.result.v) :
         last.result.v[k].count = PairCount(GroupPair(last.result.v[k]))

---------------------------------------------------------------------------
(* C2 *)

---------------------------------------------------------------------------
(* C3 *)

\* C3: for n >= 3 records the last min(5, n) are taken, their HIGH/CRITICAL
\* counts split into the floor(m/2) earliest and the rest, and the two means
\* classified: WORSENING iff secondAvg > 1.2 firstAvg, else IMPROVING iff
\* secondAvg < 0.8 firstAvg and firstAvg > 0, else STABLE; counts [2,2,5,5]
\* give WORSENING with percent increase 150
C3_TrendClassification ==
  (Returned("analyzeTrends") /\ Len(history) >= 3) =>
    LET worse == 10 * SecondSum * FirstN > 12 * FirstSum * SecondN
        better == 10 * SecondSum * FirstN < 8 * FirstSum * SecondN /\ FirstSum > 0
        direction == last.result.v.direction
    IN /\ direction = "WORSENING" <=> worse
       /\ direction = "IMPROVING" <=> (~worse /\ better)
       /\ direction = "STABLE" <=> (~worse /\ ~better)
       /\ WindowCounts = <<2, 2, 5, 5>> =>
            /\ direction = "WORSENING"
            /\ last.result.v.percent = [infinite |-> FALSE, n |-> 150]

C3_Witness ==
  /\ Returned("analyzeTrends")
  /\ WindowCounts = <<2, 2, 5, 5>>
  /\ last.result.v.direction = "WORSENING"

---------------------------------------------------------------------------
(* C4 *)

\* the stats the detector holds for a type, from the state
StatsOf(type) == successRates[CHOOSE k \in 1..Len(successRates) : successRates[k].type = type]

HasStats(type) == \E k \in 1..Len(successRates) : successRates[k].type = type

\* C4: a prioritized defect with historical data gets the 'strong defect to
\* raise' advisory iff its success rate is above 60%, the 'ensure strong
\* evidence' advisory otherwise
C4_AdvisoryFollowsSuccessRate ==
  last.op = "prioritizeDefects" =>
    \A i \in 1..Len(last.result) :
      last.result[i].hasHistoricalData =>
        LET stats == StatsOf(Prop(last.result[i].defect, "type"))
            above == 100 * stats.successful > 60 * stats.totalRaised
        IN /\ above => last.result[i].recommendation
                         = "High success rate in court - strong defect to raise"
           /\ ~above => last.result[i].recommendation
                          = "Lower success rate - ensure strong evidence before raising"

---------------------------------------------------------------------------
(* C5 *)

IsSpecialized(group) == Matches55D(group) \/ Matches49(group) \/ Matches464(group)

\* the priority-2 recommendations that carry the group's type, statute and count
GenericFor(recommendations, group) ==
  {i \in 1..Len(recommendations) :
     /\ recommendations[i].priority = 2
     /\ recommendations[i].issue = group.type
     /\ recommendations[i].statute = OrElse(group.statute, Str(<<"Unknown">>))
     /\ recommendations[i].frequency = group.count}

\* C5: every recurring group that matches no specialized rule yields exactly
\* one priority-2 recommendation with its own type, statute and count when
\* its count is >= 5, and none when its count is 3 or 4
C5_GenericRecommendationPerGroup ==
  Returned("generateRecommendations") =>
    LET recurring == findRecurringDefects(history).v
    IN \A k \in 1..Len(recurring) :
         ~IsSpecialized(recurring[k]) =>
           Cardinality(GenericFor(last.result.v, recurring[k]))
             = IF recurring[k].count >= 5 THEN 1 ELSE 0

---------------------------------------------------------------------------
(* C6 *)

\* how often the ledger lists the type in defectsRaised, over outcomes in want
LedgerCount(type, want) ==
  SeqSum([i \in 1..Len(ledger) |->
    IF ledger[i].outcome \in want
    THEN Cardinality({j \in 1..Len(ledger[i].defectsRaised.a) :
                        ledger[i].defectsRaised.a[j] = type})
    ELSE 0])

LedgerTypes ==
  UNION {{ledger[i].defectsRaised.a[j] : j \in 1..Len(ledger[i].defectsRaised.a)} :
         i \in 1..Len(ledger)}

\* C6: after any sequence of outcome recordings, updateSuccessRates calls and
\* clearAllData calls, the success-rate map agrees with the outcome ledger
C6_MapAgreesWithLedger ==
  /\ \A type \in LedgerTypes :
       /\ HasStats(type)
       /\ StatsOf(type).totalRaised = LedgerCount(type, Vocabulary)
       /\ StatsOf(type).successful = LedgerCount(type, SuccessfulOutcomes)
       /\ StatsOf(type).unsuccessful
            = LedgerCount(type, Vocabulary \ SuccessfulOutcomes)
  /\ \A k \in 1..Len(successRates) : successRates[k].type \in LedgerTypes

---------------------------------------------------------------------------
(* C7 *)

\* a record whose finding lists are lists of finding objects wherever present
WellShaped(analysis) ==
  LET ListOfObjects(x) == x.t = "array" /\ \A j \in 1..Len(x.a) : x.a[j].t = "object"
      pa == IF analysis.phases.t = "object"
            THEN Prop(analysis.phases, "presetAnalysis") ELSE Undef
  IN /\ analysis.findings.t = "undefined" \/ ListOfObjects(analysis.findings)
     /\ analysis.phases.t \in {"undefined", "object"}
     /\ \/ pa.t = "undefined"
        \/ /\ ListOfObjects(pa)
           /\ \A i \in 1..Len(pa.a) :
                \/ Prop(pa.a[i], "findings").t = "undefined"
                \/ ListOfObjects(Prop(pa.a[i], "findings"))

\* direct findings followed by the findings of every preset, nothing dropped
MergedFindings(analysis) ==
  LET pa == IF analysis.phases.t = "object"
            THEN Prop(analysis.phases, "presetAnalysis") ELSE Undef
  IN (IF analysis.findings.t = "array" THEN analysis.findings.a ELSE <<>>)
     \o (IF pa.t = "array"
         THEN Flatten([i \in 1..Len(pa.a) |->
                IF Prop(pa.a[i], "findings").t = "array"
                THEN Prop(pa.a[i], "findings").a ELSE <<>>])
         ELSE <<>>)

\* C7: the finding extraction of the engine operations yields, for a record
\* with direct and nested findings, all of both; calculateCompliance then
\* counts every one of them
C7_ExtractorMergesBoth ==
  (Returned("calculateCompliance") /\ Len(history) > 0
     /\ \A i \in 1..Len(history) : WellShaped(history[i])) =>
    /\ \A i \in 1..Len(history) : Findings(history[i]) = MergedFindings(history[i])
    /\ last.result.v.totalIssues
         = SeqSum([i \in 1..Len(history) |-> Len(MergedFindings(history[i]))])

---------------------------------------------------------------------------
(* C8 *)

\* severity normalized as the data model says: uppercased, LOW when missing
\* or unrecognized
NormalSeverity(finding) ==
  LET severity == Prop(finding, "severity")
      upper == IF severity.t = "string" THEN toUpperCase(severity.s) ELSE <<"LOW">>
  IN IF upper \in {<<"CRITICAL">>, <<"HIGH">>, <<"MEDIUM">>, <<"LOW">>}
     THEN upper ELSE <<"LOW">>

SeverityCount(analysis, severities) ==
  Cardinality({j \in 1..Len(Findings(analysis)) :
                 NormalSeverity(Findings(analysis)[j]) \in severities})

NormalWindowCounts ==
  [i \in 1..WindowSize |->
     SeverityCount(history[Len(history) - WindowSize + i], {<<"HIGH">>, <<"CRITICAL">>})]

\* C8: analyzeTrends and calculateCompliance count a defect whose severity is
\* written in lower or mixed case exactly as its uppercase form, and a missing
\* or unrecognized severity as LOW
C8_SeverityCaseInsensitive ==
  /\ (Returned("analyzeTrends") /\ Len(history) >= 3) =>
       LET first == SeqSum(SubSeq(NormalWindowCounts, 1, FirstN))
           second == SeqSum(SubSeq(NormalWindowCounts, FirstN + 1, WindowSize))
       IN last.result.v.direction
            = Classify(first, FirstN, second, SecondN).direction
  /\ (Returned("calculateCompliance") /\ Len(history) > 0) =>
       /\ last.result.v.highIssues
            = SeqSum([i \in 1..Len(history) |-> SeverityCount(history[i], {<<"HIGH">>})])
       /\ last.result.v.criticalIssues
            = SeqSum([i \in 1..Len(history) |->
                        SeverityCount(history[i], {<<"CRITICAL">>})])

---------------------------------------------------------------------------
(* C9 *)

EngineOperations ==
  {"findRecurringDefects", "analyzeTrends", "identifyNovelIssues",
   "calculateCompliance", "generateRecommendations"}

\* C9: whatever the finding shapes of the records, the five engine operations
\* return a result and never raise an error
C9_EngineNeverRaises ==
  last.op \in EngineOperations => last.result.t = "ok"

---------------------------------------------------------------------------
(* C10 *)

HasData(entry) == entry.hasHistoricalData

NoData(entry) == ~entry.hasHistoricalData

\* the input defects the detector has no usable statistics for
LacksData(defect) ==
  ~ (HasStats(Prop(defect, "type"))
     /\ StatsOf(Prop(defect, "type")).totalRaised >= 3)

\* C10: in the output of prioritizeDefects any two entries with historical
\* data are in descending successRate order, and the entries without keep
\* their input order
C10_DataEntriesDescending ==
  last.op = "prioritizeDefects" =>
    /\ \A i, j \in 1..Len(last.result) :
         (i < j /\ HasData(last.result[i]) /\ HasData(last.result[j])) =>
           parseFloat(last.result[i].successRate)
             >= parseFloat(last.result[j].successRate)
    /\ LET kept == FilterSeq(last.result, NoData)
       IN [i \in 1..Len(kept) |-> kept[i].defect] = FilterSeq(last.input, LacksData)

---------------------------------------------------------------------------
(* C11 *)

\* how often the defect occurs in a list of result entries / of defects
EntryCount(entries, defect) ==
  Cardinality({i \in 1..Len(entries) : entries[i].defect = defect})

DefectCount(defects, defect) ==
  Cardinality({i \in 1..Len(defects) : defects[i] = defect})

\* C11: prioritizeDefects returns one entry per input defect; the entry has
\* hasHistoricalData = true, with successRate and timesRaised attached, iff
\* the detector holds stats for exactly the defect's type with totalRaised
\* >= 3; every other entry has the 'No historical outcome data' advisory and
\* no successRate
C11_HistoricalDataIffThreeRaised ==
  last.op = "prioritizeDefects" =>
    /\ Len(last.result) = Len(last.input)
    /\ \A i \in 1..Len(last.input) :
         EntryCount(last.result, last.input[i]) = DefectCount(last.input, last.input[i])
    /\ \A i \in 1..Len(last.result) :
         LET entry == last.result[i]
             type == Prop(entry.defect, "type")
             known == HasStats(type) /\ StatsOf(type).totalRaised >= 3
         IN /\ entry.hasHistoricalData <=> known
            /\ known => /\ entry.successRate.t = "string"
                        /\ entry.timesRaised = StatsOf(type).totalRaised
            /\ ~known => /\ entry.successRate = Undef
                         /\ entry.recommendation
                              = "No historical outcome data for this defect type"

\* one defect at the threshold, one just below it and one whose type differs
\* from a learned type by case only
C11_Witness ==
  /\ last.op = "prioritizeDefects"
  /\ \E i, j, k \in 1..Len(last.result) :
       /\ last.result[i].hasHistoricalData
       /\ last.result[i].timesRaised = 3
       /\ ~last.result[j].hasHistoricalData
       /\ HasStats(Prop(last.result[j].defect, "type"))
       /\ StatsOf(Prop(last.result[j].defect, "type")).totalRaised = 2
       /\ ~last.result[k].hasHistoricalData
       /\ Prop(last.result[k].defect, "type") = Str(TypeXLower)
       /\ HasStats(Str(TypeX))

---------------------------------------------------------------------------
(* C12 *)

\* the entries getSuccessRates returned for the type
EntriesOf(type) == {k \in 1..Len(last.result) : last.result[k].type = type}

\* a decimal string with one fractional digit: digits, ".", digit
IsOneDecimal(x) ==
  /\ x.t = "string"
  /\ Len(x.s) >= 3
  /\ x.s[Len(x.s) - 1] = "."
  /\ \A k \in (1..Len(x.s)) \ {Len(x.s) - 1} : \E c \in 1..10 : DigitChars[c] = x.s[k]

\* C12: from an empty detector, after learning n outcomes that raise a type,
\* s of them successful, getSuccessRates holds exactly one entry for the type,
\* with totalRaised = n, successful = s, unsuccessful = n - s and successRate
\* the one-decimal string nearest to 100 s / n; 7 of 8 give "87.5"
C12_SuccessRateOfLearnedOutcomes ==
  last.op = "getSuccessRates" =>
    /\ \A k \in 1..Len(last.result) : last.result[k].type \in LedgerTypes
    /\ \A type \in LedgerTypes :
         LET n == LedgerCount(type, Vocabulary)
             s == LedgerCount(type, SuccessfulOutcomes)
         IN /\ Cardinality(EntriesOf(type)) = 1
            /\ \A k \in EntriesOf(type) :
                 LET entry == last.result[k]
                     gap == parseFloat(entry.successRate) * n - 1000 * s
                 IN /\ entry.totalRaised = n
                    /\ entry.successful = s
                    /\ entry.unsuccessful = n - s
                    /\ IsOneDecimal(entry.successRate)
                    /\ 2 * gap <= n /\ 2 * gap > -n
                    /\ (n = 8 /\ s = 7) =>
                         entry.successRate = Str(<<"8", "7", ".", "5">>)

C12_Witness ==
  /\ last.op = "getSuccessRates"
  /\ LedgerCount(Str(TypeX), Vocabulary) = 8
  /\ LedgerCount(Str(TypeX), SuccessfulOutcomes) = 7
  /\ \E k \in 1..Len(last.result) :
       /\ last.result[k].type = Str(TypeX)
       /\ last.result[k].successRate = Str(<<"8", "7", ".", "5">>)

---------------------------------------------------------------------------
(* C13 *)

\* the counters a success-rate map holds for a type, zero when it has none
CountersOf(rates, type) ==
  IF \E k \in 1..Len(rates) : rates[k].type = type
  THEN LET stats == rates[CHOOSE k \in 1..Len(rates) : rates[k].type = type]
       IN <<stats.totalRaised, stats.successful, stats.unsuccessful>>
  ELSE <<0, 0, 0>>

EntriesFor(rates, type) == {rates[k] : k \in {j \in 1..Len(rates) : rates[j].type = type}}

\* how often the outcome record lists the type
Listed(record, type) ==
  Cardinality({j \in 1..Len(record.defectsRaised.a) : record.defectsRaised.a[j] = type})

KnownTypes == {Str(TypeX), Str(TypeY), Str(TypeZ)}

\* C13: learning an outcome adds, for each listing of a type in defectsRaised,
\* 1 to totalRaised and 1 to successful when the outcome is 'evidence
\* excluded', 'application successful' or 'case dismissed', to unsuccessful
\* for each of the six other outcome types; the stats of types not listed
\* are unchanged; learning the same outcome again adds again
C13_LearnIncrementsCounters ==
  [][(last'.op = "recordOutcome" /\ Len(ledger') = Len(ledger) + 1) =>
      LET record == ledger'[Len(ledger')]
          won == record.outcome \in {"evidence excluded", "application successful",
                                      "case dismissed"}
      IN /\ record.outcome \in Vocabulary
         /\ \A type \in KnownTypes :
              LET n == Listed(record, type)
                  before == CountersOf(successRates, type)
                  after == CountersOf(successRates', type)
              IN /\ after[1] = before[1] + n
                 /\ after[2] = before[2] + (IF won THEN n ELSE 0)
                 /\ after[3] = before[3] + (IF won THEN 0 ELSE n)
                 /\ n = 0 => EntriesFor(successRates', type)
                               = EntriesFor(successRates, type)
         /\ \A k \in 1..Len(successRates') : successRates'[k].type \in KnownTypes
    ]_vars

\* the same unsuccessful outcome learned twice in a row
C13_Witness ==
  /\ last.op = "recordOutcome"
  /\ Len(ledger) = 2
  /\ ledger[1].outcome = "withdrawn"
  /\ ledger[2].outcome = "withdrawn"
  /\ ledger[1].defectsRaised = ledger[2].defectsRaised
  /\ CountersOf(successRates, Str(TypeX)) = <<2, 0, 2>>

---------------------------------------------------------------------------
(* C14 *)

\* C14: getSuccessRates returns its entries in descending order of the
\* numeric value of successRate, so 100.0 comes before 87.5
C14_SuccessRatesNumericallyDescending ==
  last.op = "getSuccessRates" =>
    \A i, j \in 1..Len(last.result) :
      i < j => parseFloat(last.result[i].successRate)
                 >= parseFloat(last.result[j].successRate)

\* the type learned first stands at 87.5, the one learned second at 100.0,
\* and the result lists the second before the first
C14_Witness ==
  /\ last.op = "getSuccessRates"
  /\ Len(successRates) = 2
  /\ successRates[1].type = Str(TypeX)
  /\ Len(last.result) = 2
  /\ last.result[1].type = Str(TypeY)
  /\ last.result[1].successRate = Str(<<"1", "0", "0", ".", "0">>)
  /\ last.result[2].successRate = Str(<<"8", "7", ".", "5">>)

---------------------------------------------------------------------------
(* C15 *)

\* does the type contain '55d' and 'directions', whatever the case
Is55DType(type) ==
  /\ type.t = "string"
  /\ \E i \in 1..Len(type.s) : type.s[i] \in {"55d", "55D"}
  /\ \E i \in 1..Len(type.s) : type.s[i] \in {"directions", "Directions"}

\* the recurring groups the history has for the type
GroupsOfType(type) ==
  {k \in 1..Len(findRecurringDefects(history).v) :
     findRecurringDefects(history).v[k].type = type}

---------------------------------------------------------------------------
(* C16 *)

\* the findings of the whole history
TotalFindings ==
  Cardinality({<<i, j>> \in (1..Len(history)) \X (1..21) : j <= Len(Findings(history[i]))})

\* is t tenths a nearest one-decimal value of the quotient n / d
IsRoundedTenths(t, n, d) == 2 * (10 * n - t * d) <= d /\ 2 * (10 * n - t * d) >= -d

\* C16: for a non-empty history calculateCompliance returns complianceRate =
\* max(0, 100 - 5 x averageIssuesPerDoc), averageIssuesPerDoc being
\* totalIssues / recordCount rounded to one decimal; the rate lies in
\* [0, 100] and is 0 whenever the average is 20 or more (values in tenths)
C16_ComplianceRateFormula ==
  (Returned("calculateCompliance") /\ Len(history) > 0) =>
    LET average == last.result.v.averageIssuesPerDoc
        rate == last.result.v.complianceRate
    IN /\ last.result.v.totalIssues = TotalFindings
       /\ IsRoundedTenths(average, TotalFindings, Len(history))
       /\ rate = (IF 1000 - 5 * average > 0 THEN 1000 - 5 * average ELSE 0)
       /\ rate >= 0 /\ rate <= 1000
       /\ average >= 200 => rate = 0

\* an average above 20 (the rate would be negative unclamped) and a rounded
\* average below it
C16_Witness ==
  /\ Returned("calculateCompliance")
  /\ Len(history) = 3
  /\ \/ /\ last.result.v.averageIssuesPerDoc > 200
        /\ last.result.v.complianceRate = 0
     \/ /\ last.result.v.averageIssuesPerDoc = 7
        /\ last.result.v.complianceRate = 965

---------------------------------------------------------------------------
(* C17 *)

ComplianceFields ==
  {"totalAnalyses", "totalIssues", "averageIssuesPerDoc", "complianceRate",
   "criticalIssues", "highIssues", "mostCommonIssue", "mostCommonIssueCount"}

\* C17: for an empty history calculateCompliance returns complianceRate 100
\* and every other metric of the non-empty result at its zero or default
\* value (complianceRate in tenths)
C17_EmptyComplianceHasEveryField ==
  (Returned("calculateCompliance") /\ Len(history) = 0) =>
    /\ DOMAIN last.result.v = ComplianceFields
    /\ last.result.v.complianceRate = 1000
    /\ last.result.v.totalAnalyses = 0
    /\ last.result.v.totalIssues = 0
    /\ last.result.v.averageIssuesPerDoc = 0
    /\ last.result.v.criticalIssues = 0
    /\ last.result.v.highIssues = 0
    /\ last.result.v.mostCommonIssue = <<"None">>
    /\ last.result.v.mostCommonIssueCount = 0

---------------------------------------------------------------------------
(* C18 *)

\* the findings of the last record
LatestFindings == Findings(history[Len(history)])

\* the positions in the last record whose type no earlier record holds
NovelPositions ==
  {j \in 1..Len(LatestFindings) :
     \A i \in 1..(Len(history) - 1) :
       \A k \in 1..Len(Findings(history[i])) :
         Prop(Findings(history[i])[k], "type") # Prop(LatestFindings[j], "type")}

\* C18: identifyNovelIssues returns nothing for an empty history; otherwise
\* it returns, in order, one entry for each finding of the last record whose
\* type is in no earlier record, repeated novel types included; with one
\* record every finding is returned
C18_NovelOccurrencesOfLastRecord ==
  Returned("identifyNovelIssues") =>
    IF Len(history) = 0 THEN last.result.v = <<>>
    ELSE /\ Len(last.result.v) = Cardinality(NovelPositions)
         /\ \A j \in NovelPositions :
              LET entry == last.result.v[Cardinality({m \in NovelPositions : m <= j})]
              IN /\ entry.type = Prop(LatestFindings[j], "type")
                 /\ entry.severity = Prop(LatestFindings[j], "severity")
                 /\ entry.statute = Prop(LatestFindings[j], "statute")
                 /\ entry.description = Prop(LatestFindings[j], "description")
         /\ Len(history) = 1 => Len(last.result.v) = Len(LatestFindings)

\* the last record holds a type seen before between two findings of a novel
\* type, and both of these are returned
C18_Witness ==
  /\ Returned("identifyNovelIssues")
  /\ Len(history) >= 2
  /\ Len(LatestFindings) = 3
  /\ NovelPositions = {1, 3}
  /\ Len(last.result.v) = 2
  /\ last.result.v[1].type = last.result.v[2].type

---------------------------------------------------------------------------
(* C19 *)

\* C19: analyzeTrends returns the insufficient-data sentinel, with
\* analysisCount the length of the history and no direction, for a history
\* of 0, 1 or 2 records, and a classification with direction WORSENING,
\* IMPROVING or STABLE for a history of 3 or more
C19_SentinelBelowThreeRecords ==
  last.op = "analyzeTrends" =>
    /\ last.result.t = "ok"
    /\ Len(history) < 3 =>
         /\ "direction" \notin DOMAIN last.result.v
         /\ "status" \in DOMAIN last.result.v
         /\ last.result.v.status = "insufficient_data"
         /\ last.result.v.analysisCount = Len(history)
    /\ Len(history) >= 3 =>
         /\ "status" \notin DOMAIN last.result.v
         /\ "direction" \in DOMAIN last.result.v
         /\ last.result.v.direction \in {"WORSENING", "IMPROVING", "STABLE"}

\* the sentinel at two records
C19_Witness ==
  /\ last.op = "analyzeTrends"
  /\ Len(history) = 2
  /\ last.result.v = [status |-> "insufficient_data", analysisCount |-> 2]


---------------------------------------------------------------------------
(* reset *)

\* the state a confirmed clearAllData leaves: the database cleared and
\* reset() called on the detector
AfterReset == last.op = "clearAllData" /\ last.confirmed

\* C20: whatever was learned before, the operation that follows reset()
\* finds no derived state: getSuccessRates() returns an empty list,
\* getLearnedPatterns() returns an empty list, prioritizeDefects returns every
\* defect without historical data, and findRecurringDefects over the empty
\* history returns an empty list
C20_ResetLeavesNoDerivedState ==
  [][AfterReset =>
       /\ last'.op = "getSuccessRates" => last'.result = <<>>
       /\ last'.op = "getLearnedPatterns" => last'.result = <<>>
       /\ last'.op = "prioritizeDefects" =>
            /\ Len(last'.result) = Len(last'.input)
            /\ \A i \in 1..Len(last'.result) :
                 /\ ~last'.result[i].hasHistoricalData
                 /\ last'.result[i].successRate = Undef
       /\ (last'.op = "findRecurringDefects" /\ history = <<>>) =>
            last'.result = Ok(<<>>)]_vars

\* the learned patterns read as empty although outcomes were recorded and
\* learn was called before the data was cleared: the outcome keys and the
\* clock are not reset, the ledger and both maps are
C20_Witness ==
  /\ last.op = "getLearnedPatterns"
  /\ last.result = <<>>
  /\ ledger = <<>> /\ successRates = <<>> /\ patterns = <<>>
  /\ nextKey.outcomes > 1
  /\ clock > nextKey.analyses + nextKey.outcomes - 1

---------------------------------------------------------------------------
(* C21 *)

\* where the history first holds an occurrence of the group's pair, in the
\* order the records and their findings are visited
FirstOccurrence(group) ==
  CHOOSE i \in 1..Len(Occurrences(history)) :
    /\ PairOf(Occurrences(history)[i].defect) = GroupPair(group)
    /\ \A j \in 1..(i - 1) :
         PairOf(Occurrences(history)[j].defect) # GroupPair(group)

\* C21: findRecurringDefects returns its groups by descending count, and
\* groups of equal count in the order their first occurrences are met in the
\* history
C21_GroupsByCountThenFirstOccurrence ==
  Returned("findRecurringDefects") =>
    \A j, k \in 1..Len(last.result.v) :
      j < k =>
        \/ last.result.v[j].count > last.result.v[k].count
        \/ /\ last.result.v[j].count = last.result.v[k].count
           /\ FirstOccurrence(last.result.v[j]) < FirstOccurrence(last.result.v[k])

\* a larger group returned before a smaller one that was met first
C21_Witness ==
  /\ Returned("findRecurringDefects")
  /\ Len(last.result.v) = 2
  /\ last.result.v[1].count > last.result.v[2].count
  /\ FirstOccurrence(last.result.v[1]) > FirstOccurrence(last.result.v[2])

\* two groups of equal count, in the order they were met
C21_WitnessTie ==
  /\ Returned("findRecurringDefects")
  /\ Len(last.result.v) = 2
  /\ last.result.v[1].count = last.result.v[2].count

---------------------------------------------------------------------------
(* C22 *)

\* the rule an entry comes from, in the order the rules are tried on a group
RuleOf(entry) ==
  CASE entry.priority = 2 -> 4
    [] entry.statute = Str(<<"Road Safety Act 1986 s.55D">>) -> 1
    [] entry.statute = Str(<<"Road Safety Act 1986 s.49">>) -> 2
    [] OTHER -> 3

\* where an entry is generated: the first recurring group with the entry's
\* issue and frequency, taken in the order findRecurringDefects returns the
\* groups, and within the group the entry's rule
GroupOf(entry) ==
  LET recurring == findRecurringDefects(history).v
  IN CHOOSE g \in 1..Len(recurring) :
       /\ recurring[g].type = entry.issue /\ recurring[g].count = entry.frequency
       /\ \A h \in 1..(g - 1) :
            ~(recurring[h].type = entry.issue /\ recurring[h].count = entry.frequency)

GeneratedNoLater(a, b) ==
  \/ GroupOf(a) < GroupOf(b)
  \/ GroupOf(a) = GroupOf(b) /\ RuleOf(a) <= RuleOf(b)

\* C22: generateRecommendations returns its entries by ascending priority,
\* within equal priority by descending frequency, and entries equal in both
\* in the order they were generated
C22_EntriesByPriorityThenFrequency ==
  Returned("generateRecommendations") =>
    \A j, k \in 1..Len(last.result.v) :
      j < k =>
        LET a == last.result.v[j]
            b == last.result.v[k]
        IN \/ a.priority < b.priority
           \/ a.priority = b.priority /\ a.frequency > b.frequency
           \/ /\ a.priority = b.priority
              /\ a.frequency = b.frequency
              /\ GeneratedNoLater(a, b)

\* a priority-1 entry returned before a priority-2 entry of higher frequency,
\* which was generated first, and two priority-1 entries of one group
C22_Witness ==
  /\ Returned("generateRecommendations")
  /\ Len(last.result.v) = 3
  /\ last.result.v[1].priority = 1
  /\ last.result.v[2].priority = 1
  /\ last.result.v[1].frequency = last.result.v[2].frequency
  /\ last.result.v[1].issue = last.result.v[2].issue
  /\ last.result.v[3].priority = 2
  /\ last.result.v[3].frequency > last.result.v[1].frequency

---------------------------------------------------------------------------
(* C23 *)

\* the timestamps of the supplied records that hold an occurrence of the
\* group's pair
TimestampsTouching(analyses, group) ==
  {analyses[i].timestamp : i \in
     {i \in 1..Len(analyses) :
        \E j \in 1..Len(Findings(analyses[i])) :
          PairOf(Findings(analyses[i])[j]) = GroupPair(group)}}

Earliest(timestamps) == CHOOSE t \in timestamps : \A u \in timestamps : t <= u

Latest(timestamps) == CHOOSE t \in timestamps : \A u \in timestamps : t >= u

IsByTimestamp(analyses) ==
  \A i, j \in 1..Len(analyses) :
    i < j => analyses[i].timestamp <= analyses[j].timestamp

\* C23: for each group findRecurringDefects returns, firstSeen is the earliest
\* and lastSeen the latest timestamp among the supplied records that hold an
\* occurrence of the group, in whatever order the records are supplied
C23_FirstSeenEarliestLastSeenLatest ==
  Returned("findRecurringDefects") =>
    \A k \in 1..Len(last.result.v) :
      LET group == last.result.v[k]
          touching == TimestampsTouching(last.input, group)
      IN /\ group.firstSeen = Earliest(touching)
         /\ group.lastSeen = Latest(touching)

\* the same for records supplied in the order of their timestamps
C23_HoldsByTimestamp ==
  (Returned("findRecurringDefects") /\ IsByTimestamp(last.input)) =>
    \A k \in 1..Len(last.result.v) :
      LET group == last.result.v[k]
          touching == TimestampsTouching(last.input, group)
      IN /\ group.firstSeen = Earliest(touching)
         /\ group.lastSeen = Latest(touching)

---------------------------------------------------------------------------
(* C24 *)

\* a submission the claim names: no outcome type, no date, or no defect
IsIncomplete(form) ==
  \/ form.outcomeType \in {Undef, Str(<<>>)}
  \/ form.outcomeDate \in {Undef, Str(<<>>)}
  \/ form.selectedDefects = <<>>

\* C24: a submission without an outcome type, without a date or without a
\* selected defect is rejected by OutcomeRecorder.saveOutcome: neither
\* database.saveOutcome nor learnFromOutcome is called, and the ledger and the
\* success-rate map stay as they are
C24_IncompleteSubmissionRejected ==
  [][(last'.op = "OutcomeRecorder.saveOutcome" /\ IsIncomplete(last'.form)) =>
       /\ last'.calls = <<>>
       /\ last'.alert # NoAlert
       /\ ledger' = ledger
       /\ successRates' = successRates]_vars

\* a submission with type and date but no defect, rejected on a ledger that
\* already holds an outcome
C24_Witness ==
  /\ last.op = "OutcomeRecorder.saveOutcome"
  /\ Truthy(last.form.outcomeType)
  /\ Truthy(last.form.outcomeDate)
  /\ last.form.selectedDefects = <<>>
  /\ last.calls = <<>>
  /\ Len(ledger) = 1
  /\ Len(successRates) = 2

---------------------------------------------------------------------------
(* C25 *)

\* C25: when getAllOutcomes, getAllAnalyses, saveAnalysis or saveOutcome
\* fails inside updateSuccessRates, loadSuccessRates, processAnalysis or
\* recordOutcome, the operation throws to its caller, and the failed call was
\* made once
C25_PersistenceFailurePropagates ==
  (/\ last.op \in {"updateSuccessRates", "loadSuccessRates", "processAnalysis",
                   "recordOutcome"}
   /\ last.failed # "none") =>
    /\ last.threw
    /\ Cardinality({i \in 1..Len(last.calls) : last.calls[i] = last.failed}) = 1

\* the same for the three operations whose catch block rethrows
C25_RethrowingOperationsPropagate ==
  (/\ last.op \in {"updateSuccessRates", "processAnalysis", "recordOutcome"}
   /\ last.failed # "none") =>
    /\ last.threw
    /\ Cardinality({i \in 1..Len(last.calls) : last.calls[i] = last.failed}) = 1

---------------------------------------------------------------------------
(* C27 *)

IsRecording(op) == op \in {"recordOutcome", "OutcomeRecorder.saveOutcome"}

\* C27: a recording calls database.saveOutcome before learnFromOutcome; when
\* saveOutcome fails, learnFromOutcome is not called and the success-rate map
\* and the ledger stay as they are; when it succeeds, the ledger gains the
\* outcome and the map counts each defect the outcome raises once more
C27_LearnedOnlyAfterPersisted ==
  [][(IsRecording(last'.op) /\ last'.calls # <<>>) =>
       /\ last'.calls[1] = "saveOutcome"
       /\ last'.failed = "saveOutcome" =>
            /\ last'.calls = <<"saveOutcome">>
            /\ successRates' = successRates
            /\ ledger' = ledger
       /\ last'.failed = "none" =>
            /\ last'.calls = <<"saveOutcome", "learnFromOutcome">>
            /\ Len(ledger') = Len(ledger) + 1
            /\ SubSeq(ledger', 1, Len(ledger)) = ledger
            /\ TotalRaised(successRates')
                 = TotalRaised(successRates)
                     + Len(ledger'[Len(ledger')].defectsRaised.a)]_vars

\* a recording through the manager whose save failed, on a detector that had
\* learned an earlier outcome: the error is thrown and nothing was learned
C27_Witness ==
  /\ last.op = "recordOutcome"
  /\ last.failed = "saveOutcome"
  /\ last.threw
  /\ Len(ledger) = 1
  /\ TotalRaised(successRates) = Len(ledger[1].defectsRaised.a)

---------------------------------------------------------------------------
(* C26 *)

\* no flow waits at an await
Quiescent == pending.recording = <<>> /\ pending.replay = <<>>

\* C26: once the recordings and the replay in flight have completed, the
\* success-rate map counts every ledger outcome exactly once, however the
\* flows were interleaved at their awaits
C26_EachOutcomeCountedOnce ==
  Quiescent =>
    \A type \in LedgerTypes :
      /\ HasStats(type)
      /\ StatsOf(type).totalRaised = LedgerCount(type, Vocabulary)

\* no outcome is lost: the map counts every ledger outcome at least once
C26_EachOutcomeCounted ==
  Quiescent =>
    \A type \in LedgerTypes :
      /\ HasStats(type)
      /\ StatsOf(type).totalRaised >= LedgerCount(type, Vocabulary)

---------------------------------------------------------------------------
(* C28 *)

IsAnalysisOperation(op) ==
  op \in {"findRecurringDefects", "analyzeTrends", "identifyNovelIssues",
          "generateRecommendations", "calculateCompliance", "analyzePatterns"}

---------------------------------------------------------------------------
(* C29 *)

\* C29: in every state of the detector, every entry of the success-rate map
\* has totalRaised = successful + unsuccessful = the length of its outcomes
\* list, and totalRaised >= 1
C29_EntryCountersAgree ==
  \A k \in 1..Len(successRates) :
    /\ successRates[k].totalRaised
         = successRates[k].successful + successRates[k].unsuccessful
    /\ successRates[k].totalRaised = Len(successRates[k].outcomes)
    /\ successRates[k].totalRaised >= 1

\* two entries learned after a reset, one with both kinds of outcome
C29_Witness ==
  /\ Len(successRates) = 2
  /\ nextKey.outcomes > Len(ledger) + 1
  /\ \E k \in 1..2 :
       /\ successRates[k].successful >= 1
       /\ successRates[k].unsuccessful >= 1

---------------------------------------------------------------------------
(* C30 *)

\* C30: every group findRecurringDefects returns counts exactly the
\* occurrences of its own (type, statute-or-'unknown') pair, whatever
\* characters the type and the statute hold
C30_GroupCountsItsOwnPair ==
  Returned("findRecurringDefects") =>
    \A k \in 1..Len(last.result.v) :
      last.result.v[k].count = PairCount(GroupPair(last.result.v[k]))

\* the same over histories in which no type and no statute holds a '|'
C30_HoldsWithoutSeparator ==
  (/\ Returned("findRecurringDefects")
   /\ \A i \in 1..Len(Occurrences(history)) :
        LET pair == PairOf(Occurrences(history)[i].defect)
        IN \A c \in 1..2 : ~includes(ToStr(pair[c]), <<"|">>)) =>
    \A k \in 1..Len(last.result.v) :
      last.result.v[k].count = PairCount(GroupPair(last.result.v[k]))

====
